---- MODULE Spec2Model ----
(***************************************************************************)
(* Verification model of the spandsp safe-wrapper crate (spandsp/src).     *)
(*                                                                         *)
(* The specifications share one module and one initial state:              *)
(*   Spec         - handle lifecycle: constructors, parent accessors,      *)
(*                  method calls, set_message_handler, native callbacks    *)
(*                  and drop (Drop::drop body, then the fields).           *)
(*   SpecCall     - one wrapper and the calls it forwards to the native    *)
(*                  side: text arguments and integer return codes.         *)
(*   SpecTramp    - the extern "C" callback trampolines as functions of    *)
(*                  the arguments the native side passes.                  *)
(*   SpecThread   - T.38 handles moved between threads.                    *)
(*   SpecG711     - the G.711 conversions over all samples and codes.      *)
(*   SpecEnum     - status and rate enumerations and their conversions.    *)
(*   SpecBulk     - bulk codec calls and the lengths they pass on.         *)
(*   FairSpecHdlc - HDLC transmitter, receiver and the transfer loop.      *)
(*   SpecDtmf     - DTMF digits queued, generated, fed and read back.      *)
(*   SpecFn       - pure wrapper functions: byte counts, T.30 completion   *)
(*                  codes and descriptions, DTMF status, log level word.   *)
(***************************************************************************)
EXTENDS Integers, Sequences, FiniteSets, TLC

\* ---------------------------------------------------------------- bounds
MaxWrap == 3        \* wrapper values created in one behaviour
MaxCtor == 1        \* constructor calls (native initializer attempts)
MaxBox == 3          \* closure boxes allocated in one behaviour
MaxText == 2        \* bytes in a text argument
MaxCalls == 2       \* native calls issued through the wrapper under call
MaxRc == 2          \* native return codes range over -MaxRc..MaxRc
MaxLen == 2         \* bytes in a callback payload
MaxThread == 1      \* threads of control are 0..MaxThread
MaxHandle == 3      \* T.38 family handles created in one behaviour
MaxStatus == 5      \* native status values range over -MaxStatus..0
MaxRateK == 9       \* bit rates tried range up to MaxRateK * 8000 + 1
MaxNew == 2         \* codec constructor calls in one behaviour
MaxBuf == 3         \* elements in a codec input or output buffer
MaxFrames == 2      \* HDLC frames queued in one behaviour
MaxFrameLen == 2    \* bytes in an HDLC frame payload
MaxDigits == 2      \* DTMF digits queued in one behaviour
MaxChunk == 2       \* samples in one generate or rx buffer
MaxCode == 63       \* completion codes range over -MaxCode..MaxCode and the i32 extremes

\* ------------------------------------------------------------- constants
NULL == 0           \* std::ptr::null_mut()
C_INT_MAX == 2147483647 \* c_int::MAX
I32_MIN == 0 - 2147483647 - 1 \* i32::MIN

Slots  == 1..MaxWrap
NatIds == 0..MaxCtor
BoxIds == 1..MaxBox
Parts  == {"self", "t30", "t38", "log"}
Ptrs   == NatIds \X Parts

\* Text arguments: byte strings over a NUL byte and the letter 'A'.
TextBytes == {0, 65}
Texts == UNION {[1..n -> TextBytes] : n \in 0..MaxText}

\* ------------------------------------------------------- wrapper catalogue
EngineKinds ==
    {"G711State", "G722Encoder", "G722Decoder", "G726State", "HdlcRx", "HdlcTx",
     "DtmfTx", "DtmfRx", "EchoCanceller", "PowerMeter", "GoertzelDetector",
     "ToneGenDescriptor", "ToneGenerator", "FaxState", "T38Terminal",
     "T38Gateway", "T38Core", "T4Rx", "T4Tx", "T4T6Decoder", "T4T6Encoder",
     "LoggingState"}

\* Constructors that always box a closure and register it with the engine.
ClosureAlways == {"HdlcRx", "T4T6Decoder", "T4T6Encoder"}

\* Constructors with and without a closure (HdlcTx::new(.., Option<F>),
\* DtmfTx::new / with_callback, DtmfRx::new / with_callback).
ClosureOptional == {"HdlcTx", "DtmfTx", "DtmfRx"}

ClosureEngines == ClosureAlways \cup ClosureOptional

CbModes(k) ==
    IF k \in ClosureAlways THEN {TRUE}
    ELSE IF k \in ClosureOptional THEN {TRUE, FALSE}
    ELSE {FALSE}

\* Wrapper structs with an Option<Box<closure>> field.
HasCbField(k) == k \in ClosureEngines \cup {"LoggingState"}

\* Constructors that take a text argument.
TextCtor == {"LoggingState", "T4Rx", "T4Tx"}

\* Accessors of a parent that hand out a view of a state embedded in it.
Accessors(k) ==
    CASE k = "FaxState"     -> {"t30"}
      [] k = "T38Terminal"  -> {"t30", "t38"}
      [] k = "T38Gateway"   -> {"t38"}
      [] k \in {"T4Rx", "T4Tx", "T4T6Decoder", "T4T6Encoder"} -> {"log"}
      [] OTHER -> {}

ChildKind(part) ==
    CASE part = "t30" -> "T30State"
      [] part = "t38" -> "T38Core"
      [] OTHER        -> "LoggingState"

\* ---------------------------------------------------------- pure helpers
ContainsNul(t) == \E i \in 1..Len(t) : t[i] = 0

\* CString::new(text) is Ok exactly when text has no interior NUL byte.
CStringNewNoCheck(t) == TRUE
CStringNew(t) == ~ContainsNul(t)

\* NonNull::new(ptr) is Some exactly when ptr is not null.
NonNullNewUnchecked(p) == TRUE
NonNullNew(p) == p # NULL

\* ------------------------------------------------------------------ state
VARIABLES
    wr,         \* wrapper values, by creation order
    nat,        \* native allocations: status and engine kind
    relCalls,   \* release-function calls issued, per native (sub)state
    ctx,        \* context pointer registered in each native (sub)state
    box,        \* closure boxes: status and the wrapper that allocated it
    invoked,    \* closure boxes whose closure has run
    uaf,        \* a native call touched a released state or closure
    cw,         \* SpecCall: the wrapper under call
    cnat,       \* SpecCall: what the native side has seen
    cres,       \* SpecCall: result of the last wrapper call
    tramp,      \* SpecTramp: last trampoline invocation and its outcome
    hs,         \* SpecThread: handles of the T.38 family and their threads
    g,          \* SpecG711: the conversion chain in progress
    en,         \* SpecEnum: bound status values and the last conversion
    bk,         \* SpecBulk: the last bulk codec call
    hd,         \* FairSpecHdlc: transmitter, receiver, the bit between them
    dt,         \* SpecDtmf: digit transmitter, audio, detector
    pf          \* SpecFn: the last pure wrapper function applied

lifeVars == <<wr, nat, relCalls, ctx, box, invoked, uaf>>
callVars == <<cw, cnat, cres>>
auxVars == <<hs, g, en, bk, hd, dt, pf>>
vars == <<wr, nat, relCalls, ctx, box, invoked, uaf, cw, cnat, cres, tramp, auxVars>>

NoWrap ==
    [st |-> "none", kind |-> "none", via |-> "none", ptr |-> <<NULL, "self">>,
     owned |-> FALSE, cb |-> NULL, pend |-> NULL, res |-> "none", inits |-> 0,
     nret |-> NULL]

LifeInit ==
    /\ wr = [s \in Slots |-> NoWrap]
    /\ nat = [n \in NatIds |-> [st |-> "none", kind |-> "none"]]
    /\ relCalls = [p \in Ptrs |-> 0]
    /\ ctx = [p \in Ptrs |-> NULL]
    /\ box = [b \in BoxIds |-> [st |-> "none", owner |-> 0]]
    /\ invoked = [b \in BoxIds |-> FALSE]
    /\ uaf = FALSE

FreeSlots == {s \in Slots : wr[s].st = "none"}
NewSlot == CHOOSE s \in FreeSlots : \A t \in FreeSlots : s <= t
CtorCalls == Cardinality({s \in Slots : wr[s].via = "ctor"})
NextNat == Cardinality({n \in 1..MaxCtor : nat[n].st # "none"}) + 1
NextBox == Cardinality({b \in BoxIds : box[b].st # "none"}) + 1

Live(p) == nat[p[1]].st = "live"

\* ------------------------------------------------------------ constructors
\* A constructor that returned Err: no wrapper value exists afterwards.
Failed(k, via, res, inits, b) ==
    [NoWrap EXCEPT !.st = "failed", !.kind = k, !.via = via, !.res = res,
                   !.inits = inits, !.cb = b]

\* <Engine>::new / with_callback / new_raw.  text is the text argument (for
\* the constructors that take one), ok whether the native initializer
\* returns a state or null.
Construct(k, withCb, text, ok) ==
    /\ FreeSlots # {}
    /\ CtorCalls < MaxCtor
    /\ withCb \in CbModes(k)
    /\ withCb => NextBox <= MaxBox
    /\ k \notin TextCtor => text = <<>>
    /\ LET s == NewSlot
           b == IF withCb THEN NextBox ELSE NULL
           p == IF ok THEN NextNat ELSE NULL
       IN  IF k \in TextCtor /\ ~CStringNew(text)
           THEN /\ wr' = [wr EXCEPT ![s] = Failed(k, "ctor", "InvalidInput", 0, NULL)]
                /\ UNCHANGED <<nat, relCalls, ctx, box, invoked, uaf>>
           ELSE IF NonNullNew(p)
           THEN /\ wr' = [wr EXCEPT ![s] =
                            [NoWrap EXCEPT !.st = "alive", !.kind = k, !.via = "ctor",
                                           !.ptr = <<p, "self">>, !.owned = TRUE,
                                           !.cb = b, !.res = "Ok", !.inits = 1,
                                           !.nret = p]]
                /\ nat' = [nat EXCEPT ![p] = [st |-> "live", kind |-> k]]
                /\ ctx' = [ctx EXCEPT ![<<p, "self">>] = b]
                /\ box' = IF withCb
                          THEN [box EXCEPT ![b] = [st |-> "live", owner |-> s]]
                          ELSE box
                /\ UNCHANGED <<relCalls, invoked, uaf>>
           ELSE /\ wr' = [wr EXCEPT ![s] = Failed(k, "ctor", "InitFailed", 1, b)]
                /\ box' = IF withCb
                          THEN [box EXCEPT ![b] = [st |-> "freed", owner |-> s]]
                          ELSE box
                /\ UNCHANGED <<nat, relCalls, ctx, invoked, uaf>>
    /\ UNCHANGED <<callVars, tramp, auxVars>>

\* FaxState::get_t30_state, T38Terminal::get_t30_state / get_t38_core_state,
\* T38Gateway::get_t38_core_state (T30State::from_raw(ptr, false),
\* T38Core::from_raw(ptr)) and <T4 engine>::get_logging_state
\* (LoggingState::from_ptr_borrowed).  ok: the native accessor returned a
\* non-null pointer.
Access(par, part, ok) ==
    /\ FreeSlots # {}
    /\ wr[par].st = "alive"
    /\ wr[par].via = "ctor"
    /\ wr[par].pend = NULL
    /\ part \in Accessors(wr[par].kind)
    /\ LET s == NewSlot
           k == ChildKind(part)
           p == IF ok THEN wr[par].ptr[1] ELSE NULL
       IN  IF NonNullNew(p)
           THEN wr' = [wr EXCEPT ![s] =
                         [NoWrap EXCEPT !.st = "alive", !.kind = k, !.via = "accessor",
                                        !.ptr = <<p, part>>, !.owned = FALSE,
                                        !.res = "Ok", !.nret = p]]
           ELSE wr' = [wr EXCEPT ![s] =
                         Failed(k, "accessor",
                                IF part = "log" THEN "Panic" ELSE "InitFailed",
                                0, NULL)]
    /\ UNCHANGED <<nat, relCalls, ctx, box, invoked, uaf>>
    /\ UNCHANGED <<callVars, tramp, auxVars>>

\* ------------------------------------------------------------------- drop
\* impl Drop: T30State and T38Core release only when owned; every other
\* wrapper, LoggingState included, calls its release function unconditionally.
DropCallsFreeAlways(w) == TRUE
DropCallsFreeNever(w) == FALSE
DropCallsFree(w) ==
    IF w.kind \in {"T30State", "T38Core"} THEN w.owned ELSE TRUE

\* Order of teardown of a wrapper with a closure field: the Drop::drop body
\* (native release) runs first, the fields (the closure box) are dropped after.
DropSequenceFieldsFirst == <<"fields", "native">>
DropSequence == <<"native", "fields">>

\* The release function is called on the wrapper's native state.
DropNative(s) ==
    LET w == wr[s]
        p == w.ptr
    IN  IF DropCallsFree(w)
        THEN /\ relCalls' = [relCalls EXCEPT ![p] = @ + 1]
             /\ nat' = IF p[2] = "self" THEN [nat EXCEPT ![p[1]].st = "freed"] ELSE nat
             /\ uaf' = (uaf \/ ~Live(p))
        ELSE UNCHANGED <<nat, relCalls, uaf>>

\* The closure field is dropped: its box is freed.
DropClosure(s) ==
    LET w == wr[s]
    IN  box' = IF w.cb # NULL THEN [box EXCEPT ![w.cb].st = "freed"] ELSE box

DropPhase(s, what) ==
    IF what = "native"
    THEN DropNative(s) /\ UNCHANGED box
    ELSE DropClosure(s) /\ UNCHANGED <<nat, relCalls, uaf>>

\* The wrapper goes out of scope: first teardown step.
Drop(s) ==
    /\ wr[s].st = "alive"
    /\ wr[s].pend = NULL
    /\ IF HasCbField(wr[s].kind)
       THEN /\ DropPhase(s, DropSequence[1])
            /\ wr' = [wr EXCEPT ![s].st = "dropping"]
       ELSE /\ DropNative(s)
            /\ UNCHANGED box
            /\ wr' = [wr EXCEPT ![s].st = "dropped"]
    /\ UNCHANGED <<ctx, invoked>>
    /\ UNCHANGED <<callVars, tramp, auxVars>>

\* Second teardown step of a wrapper with a closure field.
DropFields(s) ==
    /\ wr[s].st = "dropping"
    /\ DropPhase(s, DropSequence[2])
    /\ wr' = [wr EXCEPT ![s].st = "dropped"]
    /\ UNCHANGED <<ctx, invoked>>
    /\ UNCHANGED <<callVars, tramp, auxVars>>

\* ------------------------------------------ LoggingState::set_message_handler
\* The new closure is boxed, then registered with the native state, then
\* stored in self._handler (which drops the previous box).
HandlerSequenceStoreFirst == <<"store", "register">>
HandlerSequence == <<"register", "store">>

HandlerRegister(s, b) ==
    /\ ctx' = [ctx EXCEPT ![wr[s].ptr] = b]
    /\ uaf' = (uaf \/ ~Live(wr[s].ptr))

\* self._handler = Some(boxed): the previous box, if any, is freed.
HandlerStoreKeepsOld(bx, s, b) == bx
HandlerStore(bx, s, b) ==
    IF wr[s].cb # NULL /\ wr[s].cb # b THEN [bx EXCEPT ![wr[s].cb].st = "freed"] ELSE bx

HandlerPhase(s, b, what, bx) ==
    IF what = "register"
    THEN HandlerRegister(s, b) /\ box' = bx
    ELSE box' = HandlerStore(bx, s, b) /\ UNCHANGED <<ctx, uaf>>

SetHandlerBegin(s) ==
    /\ wr[s].st = "alive"
    /\ wr[s].kind = "LoggingState"
    /\ wr[s].pend = NULL
    /\ NextBox <= MaxBox
    /\ LET b == NextBox
       IN  /\ HandlerPhase(s, b, HandlerSequence[1],
                           [box EXCEPT ![b] = [st |-> "live", owner |-> s]])
           /\ wr' = [wr EXCEPT ![s].pend = b,
                               ![s].cb = IF HandlerSequence[1] = "store" THEN b ELSE @]
    /\ UNCHANGED <<nat, relCalls, invoked>>
    /\ UNCHANGED <<callVars, tramp, auxVars>>

SetHandlerEnd(s) ==
    /\ wr[s].st = "alive"
    /\ wr[s].pend # NULL
    /\ HandlerPhase(s, wr[s].pend, HandlerSequence[2], box)
    /\ wr' = [wr EXCEPT ![s].pend = NULL, ![s].cb = wr[s].pend]
    /\ UNCHANGED <<nat, relCalls, invoked>>
    /\ UNCHANGED <<callVars, tramp, auxVars>>

\* --------------------------------------------------------- native callback
\* A live native state calls back through its registered context pointer.
Callback(p) ==
    /\ Live(p)
    /\ ctx[p] # NULL
    /\ IF box[ctx[p]].st = "live"
       THEN invoked' = [invoked EXCEPT ![ctx[p]] = TRUE] /\ UNCHANGED uaf
       ELSE uaf' = TRUE /\ UNCHANGED invoked
    /\ UNCHANGED <<wr, nat, relCalls, ctx, box>>
    /\ UNCHANGED <<callVars, tramp, auxVars>>

\* Constructors that only unsafe code can call (new_raw).
UnsafeCtor == {"T38Terminal", "T38Gateway", "T38Core"}

\* A &self method of wrapper s that forwards its pointer to the native side
\* (T30State::call_active, FaxState::rx, T38Core::send_timeout, ...).
Method(s) ==
    /\ wr[s].st = "alive"
    /\ wr[s].pend = NULL
    /\ uaf' = (uaf \/ ~Live(wr[s].ptr))
    /\ UNCHANGED <<wr, nat, relCalls, ctx, box, invoked>>
    /\ UNCHANGED <<callVars, tramp, auxVars>>

Next ==
    \/ \E k \in EngineKinds, withCb \in BOOLEAN, text \in Texts, ok \in BOOLEAN :
          Construct(k, withCb, text, ok)
    \/ \E par \in Slots, part \in Parts \ {"self"}, ok \in BOOLEAN : Access(par, part, ok)
    \/ \E s \in Slots : Drop(s)
    \/ \E s \in Slots : DropFields(s)
    \/ \E s \in Slots : SetHandlerBegin(s)
    \/ \E s \in Slots : SetHandlerEnd(s)
    \/ \E p \in Ptrs : Callback(p)
    \/ \E s \in Slots : Method(s)

\* ================================================================ SpecCall
\* Wrapper methods that pass a text argument through CString::new.
TextOps ==
    {<<"DtmfTx", "put">>,
     <<"LoggingState", "set_tag">>, <<"LoggingState", "set_protocol">>,
     <<"T30State", "set_tx_file">>, <<"T30State", "set_rx_file">>,
     <<"T4Rx", "set_dcs">>, <<"T4Rx", "set_sub_address">>,
     <<"T4Rx", "set_far_ident">>, <<"T4Rx", "set_vendor">>, <<"T4Rx", "set_model">>,
     <<"T4Tx", "set_local_ident">>, <<"T4Tx", "set_header_info">>}

\* Wrapper methods over an integer-returning native call, returning Result<()>.
RcOps ==
    {<<"HdlcTx", "frame">>, <<"HdlcTx", "flags">>, <<"HdlcTx", "abort">>,
     <<"FaxState", "restart">>, <<"T38Terminal", "restart">>,
     <<"T38Core", "restart">>, <<"T38Core", "send_data">>,
     <<"T38Core", "rx_ifp_packet">>,
     <<"T30State", "set_supported_modems">>, <<"T30State", "set_ecm_capability">>,
     <<"T4Rx", "start_page">>, <<"T4Rx", "end_page">>, <<"T4Rx", "set_rx_encoding">>,
     <<"T4Tx", "start_page">>, <<"T4Tx", "restart_page">>, <<"T4Tx", "end_page">>,
     <<"T4Tx", "set_tx_image_format">>,
     <<"T4T6Decoder", "restart">>, <<"T4T6Decoder", "set_encoding">>,
     <<"T4T6Encoder", "restart">>, <<"T4T6Encoder", "set_encoding">>,
     <<"T4T6Encoder", "set_image_width">>, <<"T4T6Encoder", "set_image_length">>}

CallKinds == {o[1] : o \in TextOps \cup RcOps}
RcCodes == (0 - MaxRc)..MaxRc

NoCall == [class |-> "none", kind |-> "none", op |-> "none", text |-> <<>>,
           rc |-> 0, res |-> "none", code |-> 0]

CallInit ==
    /\ cw = "none"
    /\ cnat = [inits |-> 0, calls |-> 0, text |-> <<>>]
    /\ cres = NoCall

\* if rc != 0 { return Err(SpanDspError::ErrorCode(rc)); } Ok(())
RcResultNegativeOnly(rc) ==
    IF rc < 0 THEN [res |-> "ErrorCode", code |-> rc] ELSE [res |-> "Ok", code |-> 0]
RcResult(rc) ==
    IF rc # 0 THEN [res |-> "ErrorCode", code |-> rc] ELSE [res |-> "Ok", code |-> 0]

\* A handle of kind k comes into being: <k>::new for the constructors (text
\* is the tag or file path of LoggingState::new, T4Rx::new, T4Tx::new), the
\* parent's accessor for T30State.
CallNew(k, text, ok) ==
    /\ cw = "none"
    /\ k \in CallKinds
    /\ cnat.inits < MaxCalls
    /\ k \notin TextCtor => text = <<>>
    /\ IF k \in TextCtor /\ ~CStringNew(text)
       THEN /\ cres' = [NoCall EXCEPT !.class = "new", !.kind = k, !.op = "new",
                                      !.text = text, !.res = "InvalidInput"]
            /\ UNCHANGED <<cw, cnat>>
       ELSE /\ cnat' = [cnat EXCEPT !.inits = @ + 1,
                                    !.text = IF ok THEN text ELSE @]
            /\ cw' = IF NonNullNew(IF ok THEN 1 ELSE NULL) THEN k ELSE "none"
            /\ cres' = [NoCall EXCEPT !.class = "new", !.kind = k, !.op = "new",
                                      !.text = text,
                                      !.res = IF NonNullNew(IF ok THEN 1 ELSE NULL)
                                              THEN "Ok" ELSE "InitFailed"]
    /\ UNCHANGED <<lifeVars, tramp, auxVars>>

\* A text-taking method: CString::new(text)?, then the native call.  n is the
\* count dtmf_tx_put returns (DtmfTx::put returns Ok(n)); the setters return
\* Ok(()).
CallText(op, text, n) ==
    /\ cw # "none"
    /\ <<cw, op>> \in TextOps
    /\ cnat.calls < MaxCalls
    /\ n \in 0..Len(text)
    /\ op # "put" => n = 0
    /\ IF ~CStringNew(text)
       THEN /\ cres' = [NoCall EXCEPT !.class = "text", !.kind = cw, !.op = op,
                                      !.text = text, !.res = "InvalidInput"]
            /\ UNCHANGED cnat
       ELSE /\ cnat' = [cnat EXCEPT !.calls = @ + 1, !.text = text]
            /\ cres' = [NoCall EXCEPT !.class = "text", !.kind = cw, !.op = op,
                                      !.text = text, !.res = "Ok", !.code = n]
    /\ UNCHANGED <<cw, lifeVars, tramp, auxVars>>

\* A method over a native call whose integer return is success/failure.
CallRc(op, rc) ==
    /\ cw # "none"
    /\ <<cw, op>> \in RcOps
    /\ cnat.calls < MaxCalls
    /\ cnat' = [cnat EXCEPT !.calls = @ + 1]
    /\ cres' = [NoCall EXCEPT !.class = "rc", !.kind = cw, !.op = op, !.rc = rc,
                              !.res = RcResult(rc).res, !.code = RcResult(rc).code]
    /\ UNCHANGED <<cw, lifeVars, tramp, auxVars>>

AllOps == {o[2] : o \in TextOps \cup RcOps}

CallNext ==
    \/ \E k \in CallKinds, text \in Texts, ok \in BOOLEAN : CallNew(k, text, ok)
    \/ \E op \in AllOps, text \in Texts, n \in 0..MaxText : CallText(op, text, n)
    \/ \E op \in AllOps, rc \in RcCodes : CallRc(op, rc)

\* =============================================================== SpecTramp
TrampKinds ==
    {"hdlc_rx_frame", "hdlc_tx_underflow", "dtmf_tx_callback", "dtmf_rx_callback",
     "message_handler", "row_write", "row_read"}

\* Trampolines whose native signature carries a payload pointer.
PayloadKinds ==
    {"hdlc_rx_frame", "dtmf_rx_callback", "message_handler", "row_write", "row_read"}

\* Payload bytes: the letter 'A' and 0xFF, which no UTF-8 text contains.
PayloadBytes == {65, 255}
Payloads == UNION {[1..n -> PayloadBytes] : n \in 0..MaxLen}

\* std::str::from_utf8 / CStr::to_str over PayloadBytes.
Utf8Valid(b) == \A i \in 1..Len(b) : b[i] < 128

\* Outcome of one trampoline invocation: whether the closure ran, the view it
\* was given, how many bytes behind the payload pointer were made readable
\* or read, the value returned to the native side.
TOut(inv, view, span, ret) ==
    [invoked |-> inv, view |-> view, span |-> span, ret |-> ret]

NoOp == TOut(0, <<>>, 0, 0)

\* hdlc.rs: the frame-received trampoline.
hdlc_rx_frame_unchecked(userNull, pktNull, buf, len, ok) ==
    IF pktNull \/ len <= 0
    THEN TOut(1, <<>>, 0, 0)
    ELSE TOut(1, SubSeq(buf, 1, len), len, 0)
hdlc_rx_frame_trampoline(userNull, pktNull, buf, len, ok) ==
    IF userNull THEN NoOp
    ELSE IF pktNull \/ len <= 0
    THEN TOut(1, <<>>, 0, 0)
    ELSE TOut(1, SubSeq(buf, 1, len), len, 0)

\* hdlc.rs: the underflow trampoline.
hdlc_tx_underflow_trampoline(userNull) ==
    IF userNull THEN NoOp ELSE TOut(1, <<>>, 0, 0)

\* dtmf.rs: the digits-needed trampoline.
dtmf_tx_callback_trampoline(userNull) ==
    IF userNull THEN NoOp ELSE TOut(1, <<>>, 0, 0)

\* dtmf.rs: the digits-received trampoline.
dtmf_rx_callback_unvalidated(userNull, digitsNull, buf, len) ==
    IF userNull \/ digitsNull \/ len <= 0 THEN NoOp
    ELSE TOut(1, SubSeq(buf, 1, len), len, 0)
dtmf_rx_callback_trampoline(userNull, digitsNull, buf, len) ==
    IF userNull \/ digitsNull \/ len <= 0 THEN NoOp
    ELSE IF Utf8Valid(SubSeq(buf, 1, len))
    THEN TOut(1, SubSeq(buf, 1, len), len, 0)
    ELSE TOut(0, <<>>, len, 0)

\* logging.rs: the message trampoline.  CStr::from_ptr reads the text up to
\* and including its terminator.
message_handler_trampoline(userNull, textNull, buf) ==
    IF userNull \/ textNull THEN NoOp
    ELSE IF Utf8Valid(buf)
    THEN TOut(1, buf, Len(buf) + 1, 0)
    ELSE TOut(0, <<>>, Len(buf) + 1, 0)

\* t4_rx.rs: the row-write trampoline; cret = 1 when the closure returns true.
row_write_always_continue(userNull, bufNull, buf, len, cret) ==
    IF userNull THEN NoOp
    ELSE IF bufNull \/ len = 0
    THEN TOut(1, <<>>, 0, 0)
    ELSE TOut(1, SubSeq(buf, 1, len), len, 0)
row_write_trampoline(userNull, bufNull, buf, len, cret) ==
    IF userNull THEN NoOp
    ELSE IF bufNull \/ len = 0
    THEN TOut(1, <<>>, 0, IF cret = 1 THEN 0 ELSE 0 - 1)
    ELSE TOut(1, SubSeq(buf, 1, len), len, IF cret = 1 THEN 0 ELSE 0 - 1)

\* t4_tx.rs: the row-read trampoline; cret is the count the closure returns.
row_read_trampoline(userNull, bufNull, buf, len, cret) ==
    IF userNull THEN NoOp
    ELSE IF bufNull \/ len = 0
    THEN TOut(1, <<>>, 0, cret)
    ELSE TOut(1, SubSeq(buf, 1, len), len, cret)

Trampoline(k, userNull, ptrNull, buf, len, ok, cret) ==
    CASE k = "hdlc_rx_frame"     -> hdlc_rx_frame_trampoline(userNull, ptrNull, buf, len, ok)
      [] k = "hdlc_tx_underflow" -> hdlc_tx_underflow_trampoline(userNull)
      [] k = "dtmf_tx_callback"  -> dtmf_tx_callback_trampoline(userNull)
      [] k = "dtmf_rx_callback"  -> dtmf_rx_callback_trampoline(userNull, ptrNull, buf, len)
      [] k = "message_handler"   -> message_handler_trampoline(userNull, ptrNull, buf)
      [] k = "row_write"         -> row_write_trampoline(userNull, ptrNull, buf, len, cret)
      [] k = "row_read"          -> row_read_trampoline(userNull, ptrNull, buf, len, cret)

NoTramp ==
    [kind |-> "none", userNull |-> FALSE, ptrNull |-> FALSE, buf |-> <<>>, len |-> 0,
     ok |-> 0, cret |-> 0, out |-> NoOp]

TrampInit == tramp = NoTramp

\* The native side invokes trampoline k.  buf is the memory behind the
\* payload pointer when it is not null, len the length argument (c_int for
\* HDLC and DTMF, usize for the T.4 rows, the C string's length for the log
\* text), ok the HDLC crc flag, cret what the closure returns.
TrampInvoke(k, userNull, ptrNull, buf, len, ok, cret) ==
    /\ k \notin PayloadKinds => (~ptrNull /\ buf = <<>> /\ len = 0)
    /\ ptrNull => buf = <<>>
    /\ len <= Len(buf)
    /\ k \in {"row_write", "row_read"} => len >= 0
    /\ k = "message_handler" => len = Len(buf)
    /\ k # "hdlc_rx_frame" => ok = 0
    /\ k \notin {"row_write", "row_read"} => cret = 0
    /\ tramp' = [kind |-> k, userNull |-> userNull, ptrNull |-> ptrNull, buf |-> buf,
                 len |-> len, ok |-> ok, cret |-> cret,
                 out |-> Trampoline(k, userNull, ptrNull, buf, len, ok, cret)]
    /\ UNCHANGED <<lifeVars, callVars, auxVars>>

TrampNext ==
    \E k \in TrampKinds, userNull \in BOOLEAN, ptrNull \in BOOLEAN, buf \in Payloads,
       len \in (0 - 1)..MaxLen, ok \in 0..1, cret \in 0..1 :
        TrampInvoke(k, userNull, ptrNull, buf, len, ok, cret)

\* ============================================================== SpecThread
\* Threads of control and handles of the T.38 family.
Threads == 0..MaxThread
THandles == 1..MaxHandle

\* Wrappers a constructor returns, and the children their accessors return.
ThreadParents == {"T38Terminal", "T38Gateway"}
ThreadChildren(k) ==
    IF k = "T38Terminal" THEN {"T38Core", "T30State"} ELSE {"T38Core"}
ThreadKinds == ThreadParents \cup {"T38Core", "T30State"}

\* Send: the two unsafe impls.  Every other wrapper holds a NonNull and is
\* neither Send nor Sync.
SendKinds == {"T38Terminal", "T38Core"}

NoHandle ==
    [st |-> "none", kind |-> "none", via |-> "none", root |-> NULL, thread |-> 0,
     busy |-> FALSE]

ThreadInit == hs = [h \in THandles |-> NoHandle]

\* A thread runs one call at a time: it is idle when none of its handles is
\* inside a native call.
ThreadIdle(t) == \A h \in THandles : ~(hs[h].thread = t /\ hs[h].busy)

FreeHandles == {h \in THandles : hs[h].st = "none"}
NewHandle == CHOOSE h \in FreeHandles : \A o \in FreeHandles : h <= o

\* T38Terminal::new_raw / T38Gateway::new_raw on thread t: a fresh native state.
ThreadNew(k, t) ==
    /\ FreeHandles # {}
    /\ ThreadIdle(t)
    /\ hs' = [hs EXCEPT ![NewHandle] =
                [st |-> "alive", kind |-> k, via |-> "ctor", root |-> NewHandle,
                 thread |-> t, busy |-> FALSE]]
    /\ UNCHANGED <<lifeVars, callVars, tramp, g, en, bk, hd, dt, pf>>

\* get_t38_core_state / get_t30_state(&self): the thread holding the parent
\* gets a handle to a state inside the parent's native state; the handle
\* carries no borrow of the parent.
ThreadAccess(p, ck) ==
    /\ FreeHandles # {}
    /\ hs[p].st = "alive" /\ hs[p].via = "ctor"
    /\ ck \in ThreadChildren(hs[p].kind)
    /\ ThreadIdle(hs[p].thread)
    /\ hs' = [hs EXCEPT ![NewHandle] =
                [st |-> "alive", kind |-> ck, via |-> "accessor", root |-> hs[p].root,
                 thread |-> hs[p].thread, busy |-> FALSE]]
    /\ UNCHANGED <<lifeVars, callVars, tramp, g, en, bk, hd, dt, pf>>

\* Moving a handle into another thread (thread::spawn(move || ..), a channel
\* send): allowed by the compiler exactly for Send types.
ThreadMove(h, t) ==
    /\ hs[h].st = "alive" /\ ~hs[h].busy
    /\ hs[h].kind \in SendKinds
    /\ t # hs[h].thread
    /\ ThreadIdle(hs[h].thread)
    /\ hs' = [hs EXCEPT ![h].thread = t]
    /\ UNCHANGED <<lifeVars, callVars, tramp, g, en, bk, hd, dt, pf>>

\* A &self method enters the native engine with the handle's pointer ...
ThreadCallBegin(h) ==
    /\ hs[h].st = "alive"
    /\ ThreadIdle(hs[h].thread)
    /\ hs' = [hs EXCEPT ![h].busy = TRUE]
    /\ UNCHANGED <<lifeVars, callVars, tramp, g, en, bk, hd, dt, pf>>

\* ... and returns.
ThreadCallEnd(h) ==
    /\ hs[h].busy
    /\ hs' = [hs EXCEPT ![h].busy = FALSE]
    /\ UNCHANGED <<lifeVars, callVars, tramp, g, en, bk, hd, dt, pf>>

\* The handle goes out of scope on its thread.
ThreadDrop(h) ==
    /\ hs[h].st = "alive"
    /\ ThreadIdle(hs[h].thread)
    /\ hs' = [hs EXCEPT ![h].st = "dropped"]
    /\ UNCHANGED <<lifeVars, callVars, tramp, g, en, bk, hd, dt, pf>>

ThreadNext ==
    \/ \E k \in ThreadParents, t \in Threads : ThreadNew(k, t)
    \/ \E p \in THandles, ck \in ThreadKinds : ThreadAccess(p, ck)
    \/ \E h \in THandles, t \in Threads : ThreadMove(h, t)
    \/ \E h \in THandles : ThreadCallBegin(h)
    \/ \E h \in THandles : ThreadCallEnd(h)
    \/ \E h \in THandles : ThreadDrop(h)

\* ================================================================ SpecG711
\* Integer casts and bit operations of the stateless conversions.  The i32
\* intermediates stay below 2^17, so only the narrowing casts wrap.
AsU8(x) == x % 256
AsI16(x) == LET m == x % 65536 IN IF m >= 32768 THEN m - 65536 ELSE m

RECURSIVE BitAnd(_, _)
BitAnd(a, b) ==
    IF a = 0 \/ b = 0 THEN 0
    ELSE ((a % 2) * (b % 2)) + 2 * BitAnd(a \div 2, b \div 2)

RECURSIVE BitOr(_, _)
BitOr(a, b) ==
    IF a = 0 THEN b
    ELSE IF b = 0 THEN a
    ELSE (IF a % 2 = 1 \/ b % 2 = 1 THEN 1 ELSE 0) + 2 * BitOr(a \div 2, b \div 2)

RECURSIVE BitXor(_, _)
BitXor(a, b) ==
    IF a = 0 THEN b
    ELSE IF b = 0 THEN a
    ELSE ((a + b) % 2) + 2 * BitXor(a \div 2, b \div 2)

Shl(v, n) == v * 2^n
Shr(v, n) == v \div 2^n

ULAW_BIAS == 132
ALAW_AMI_MASK == 85

I16 == (0 - 32768)..32767
Codes == 0..255
Laws == {"ulaw", "alaw"}

\* Position of the highest set bit, -1 for 0.
RECURSIVE top_bit(_)
top_bit(v) == IF v = 0 THEN 0 - 1 ELSE 1 + top_bit(v \div 2)

linear_to_ulaw_unbiased(linear) ==
    LET lin == IF linear >= 0 THEN linear ELSE 0 - linear
        mask == IF linear >= 0 THEN 255 ELSE 127
        seg == top_bit(BitOr(lin, 255)) - 7
    IN  IF seg >= 8 THEN BitXor(127, mask)
        ELSE BitXor(AsU8(BitOr(Shl(seg, 4), BitAnd(Shr(lin, seg + 3), 15))), mask)
linear_to_ulaw(linear) ==
    LET lin == IF linear >= 0 THEN linear + ULAW_BIAS ELSE ULAW_BIAS - linear
        mask == IF linear >= 0 THEN 255 ELSE 127
        seg == top_bit(BitOr(lin, 255)) - 7
    IN  IF seg >= 8 THEN BitXor(127, mask)
        ELSE BitXor(AsU8(BitOr(Shl(seg, 4), BitAnd(Shr(lin, seg + 3), 15))), mask)

\* The i32 value ulaw_to_linear computes before its `as i16`.
ulaw_to_linear_wide_shifted(ulaw) ==
    LET u == 255 - ulaw
        t == Shl(Shl(BitAnd(u, 15), 3) + ULAW_BIAS, Shr(BitAnd(u, 112), 4) + 1)
    IN  IF BitAnd(u, 128) # 0 THEN ULAW_BIAS - t ELSE t - ULAW_BIAS
ulaw_to_linear_wide(ulaw) ==
    LET u == 255 - ulaw
        t == Shl(Shl(BitAnd(u, 15), 3) + ULAW_BIAS, Shr(BitAnd(u, 112), 4))
    IN  IF BitAnd(u, 128) # 0 THEN ULAW_BIAS - t ELSE t - ULAW_BIAS

ulaw_to_linear(ulaw) == AsI16(ulaw_to_linear_wide(ulaw))

linear_to_alaw_no_ami(linear) ==
    LET lin == IF linear >= 0 THEN linear ELSE (0 - linear) - 1
        mask == IF linear >= 0 THEN 128 ELSE 0
        seg == top_bit(BitOr(lin, 255)) - 7
        shift == IF seg # 0 THEN seg + 3 ELSE 4
    IN  IF seg >= 8 THEN BitXor(127, mask)
        ELSE BitXor(AsU8(BitOr(Shl(seg, 4), BitAnd(Shr(lin, shift), 15))), mask)
linear_to_alaw(linear) ==
    LET lin == IF linear >= 0 THEN linear ELSE (0 - linear) - 1
        mask == IF linear >= 0 THEN BitOr(128, ALAW_AMI_MASK) ELSE ALAW_AMI_MASK
        seg == top_bit(BitOr(lin, 255)) - 7
        shift == IF seg # 0 THEN seg + 3 ELSE 4
    IN  IF seg >= 8 THEN BitXor(127, mask)
        ELSE BitXor(AsU8(BitOr(Shl(seg, 4), BitAnd(Shr(lin, shift), 15))), mask)

\* The i32 value alaw_to_linear computes before its `as i16`.
alaw_to_linear_val_no_offset(alaw) ==
    LET a == BitXor(alaw, ALAW_AMI_MASK)
        i == Shl(BitAnd(a, 15), 4)
        seg == Shr(BitAnd(a, 112), 4)
    IN  IF seg # 0 THEN Shl(i + 264, seg - 1) ELSE i
alaw_to_linear_val(alaw) ==
    LET a == BitXor(alaw, ALAW_AMI_MASK)
        i == Shl(BitAnd(a, 15), 4)
        seg == Shr(BitAnd(a, 112), 4)
    IN  IF seg # 0 THEN Shl(i + 264, seg - 1) ELSE i + 8

alaw_to_linear(alaw) ==
    IF BitAnd(BitXor(alaw, ALAW_AMI_MASK), 128) # 0
    THEN AsI16(alaw_to_linear_val(alaw))
    ELSE AsI16(0 - AsI16(alaw_to_linear_val(alaw)))

\* The decoded value before any narrowing cast, sign applied.
alaw_to_linear_wide(alaw) ==
    IF BitAnd(BitXor(alaw, ALAW_AMI_MASK), 128) # 0
    THEN alaw_to_linear_val(alaw)
    ELSE 0 - alaw_to_linear_val(alaw)

\* The segment index the encoders select: top_bit(lin | 0xFF) - 7 of the
\* biased (u-law) or folded (A-law) magnitude.
ulaw_seg_unbiased(linear) ==
    top_bit(BitOr(IF linear >= 0 THEN linear ELSE 0 - linear, 255)) - 7
ulaw_seg(linear) ==
    top_bit(BitOr(IF linear >= 0 THEN linear + ULAW_BIAS ELSE ULAW_BIAS - linear, 255)) - 7
alaw_seg(linear) ==
    top_bit(BitOr(IF linear >= 0 THEN linear ELSE (0 - linear) - 1, 255)) - 7

Encode(law, x) == IF law = "ulaw" THEN linear_to_ulaw(x) ELSE linear_to_alaw(x)
Decode(law, c) == IF law = "ulaw" THEN ulaw_to_linear(c) ELSE alaw_to_linear(c)
DecodeWide(law, c) ==
    IF law = "ulaw" THEN ulaw_to_linear_wide(c) ELSE alaw_to_linear_wide(c)

\* A chain of conversions: start is its input (a code or a linear sample),
\* mid the result of the first conversion, out of the second, wide the
\* pre-cast value of the decode it performed.
NoChain ==
    [from |-> "none", law |-> "none", start |-> 0, mid |-> 0, out |-> 0, wide |-> 0,
     steps |-> 0]

G711Init == g = NoChain

\* ulaw_to_linear(c) / alaw_to_linear(c) on a code the caller chose.
DecodeCode(law, c) ==
    /\ g' = [from |-> "code", law |-> law, start |-> c, mid |-> Decode(law, c),
             out |-> 0, wide |-> DecodeWide(law, c), steps |-> 1]
    /\ UNCHANGED <<lifeVars, callVars, tramp, hs, en, bk, hd, dt, pf>>

\* linear_to_ulaw / linear_to_alaw on the sample just decoded.
EncodeDecoded ==
    /\ g.from = "code" /\ g.steps = 1
    /\ g' = [g EXCEPT !.out = Encode(g.law, g.mid), !.steps = 2]
    /\ UNCHANGED <<lifeVars, callVars, tramp, hs, en, bk, hd, dt, pf>>

\* linear_to_ulaw(x) / linear_to_alaw(x) on a sample the caller chose.
EncodeLinear(law, x) ==
    /\ g' = [from |-> "linear", law |-> law, start |-> x, mid |-> Encode(law, x),
             out |-> 0, wide |-> 0, steps |-> 1]
    /\ UNCHANGED <<lifeVars, callVars, tramp, hs, en, bk, hd, dt, pf>>

\* ulaw_to_linear / alaw_to_linear on the code just encoded.
DecodeEncoded ==
    /\ g.from = "linear" /\ g.steps = 1
    /\ g' = [g EXCEPT !.out = Decode(g.law, g.mid), !.wide = DecodeWide(g.law, g.mid),
                      !.steps = 2]
    /\ UNCHANGED <<lifeVars, callVars, tramp, hs, en, bk, hd, dt, pf>>

G711Next ==
    \/ g.steps = 0 /\ \E law \in Laws, c \in Codes : DecodeCode(law, c)
    \/ EncodeDecoded
    \/ g.steps = 0 /\ \E law \in Laws, x \in I16 : EncodeLinear(law, x)
    \/ DecodeEncoded

\* ================================================================ SpecEnum
\* T4DecodeStatus and the values the native header binds to its enumerators.
\* The two the tests pin down are fixed; the other four are whatever the
\* bindings hold, distinct because they are discriminants of one enum.
T4Statuses == {"MoreData", "Ok", "Interrupt", "Aborted", "NoMem", "InvalidData"}
StatusValues == (0 - MaxStatus)..0
StatusInputs == (0 - MaxStatus - 1)..2
StatusBindings ==
    {d \in [T4Statuses -> StatusValues] :
        /\ d["MoreData"] = 0
        /\ d["Ok"] = 0 - 1
        /\ \A s \in T4Statuses, t \in T4Statuses : (s # t) => (d[s] # d[t])}

\* std Result of a conversion.
ROk(v) == [ok |-> TRUE, val |-> v]
RErr(e) == [ok |-> FALSE, val |-> e]
unwrap_or(r, dflt) == IF r.ok THEN r.val ELSE dflt

\* impl From<T4DecodeStatus> for i32.
T4DecodeStatus_into_i32(d, st) == d[st]

\* impl TryFrom<i32> for T4DecodeStatus: the arms in source order.
T4DecodeStatus_try_from_no_interrupt(d, value) ==
    IF value = d["MoreData"] THEN ROk("MoreData")
    ELSE IF value = d["Ok"] THEN ROk("Ok")
    ELSE IF value = d["Aborted"] THEN ROk("Aborted")
    ELSE IF value = d["NoMem"] THEN ROk("NoMem")
    ELSE IF value = d["InvalidData"] THEN ROk("InvalidData")
    ELSE RErr("InvalidInput")
T4DecodeStatus_try_from(d, value) ==
    IF value = d["MoreData"] THEN ROk("MoreData")
    ELSE IF value = d["Ok"] THEN ROk("Ok")
    ELSE IF value = d["Interrupt"] THEN ROk("Interrupt")
    ELSE IF value = d["Aborted"] THEN ROk("Aborted")
    ELSE IF value = d["NoMem"] THEN ROk("NoMem")
    ELSE IF value = d["InvalidData"] THEN ROk("InvalidData")
    ELSE RErr("InvalidInput")

\* T4Rx::put / put_bit and T4T6Decoder::put / put_bit on the native return.
PutOps == {"T4Rx::put", "T4Rx::put_bit", "T4T6Decoder::put", "T4T6Decoder::put_bit"}
T4Rx_put(d, rc) == unwrap_or(T4DecodeStatus_try_from(d, rc), "InvalidData")

\* Codec bit rates.
RateCodecs == {"G722", "G726"}
RateInputs == {k * 8000 + e : k \in 0..MaxRateK, e \in {0, 1}} \cup
              {k * 8000 - 1 : k \in 1..MaxRateK}
G722Rates == {"Rate64000", "Rate56000", "Rate48000"}
G726Rates == {"Rate16000", "Rate24000", "Rate32000", "Rate40000"}
RatesOf(codec) == IF codec = "G722" THEN G722Rates ELSE G726Rates

G722Rate_as_raw(r) ==
    CASE r = "Rate64000" -> 64000
      [] r = "Rate56000" -> 56000
      [] r = "Rate48000" -> 48000

G726Rate_as_raw(r) ==
    CASE r = "Rate16000" -> 16000
      [] r = "Rate24000" -> 24000
      [] r = "Rate32000" -> 32000
      [] r = "Rate40000" -> 40000

as_raw(codec, r) == IF codec = "G722" THEN G722Rate_as_raw(r) ELSE G726Rate_as_raw(r)

\* bps(): as_raw() as u32, the value being positive.
bps(codec, r) == as_raw(codec, r)

G722Rate_try_from_swapped(b) ==
    CASE b = 64000 -> ROk("Rate64000")
      [] b = 56000 -> ROk("Rate48000")
      [] b = 48000 -> ROk("Rate56000")
      [] OTHER -> RErr("InvalidInput")
G722Rate_try_from(b) ==
    CASE b = 64000 -> ROk("Rate64000")
      [] b = 56000 -> ROk("Rate56000")
      [] b = 48000 -> ROk("Rate48000")
      [] OTHER -> RErr("InvalidInput")

G726Rate_try_from(b) ==
    CASE b = 16000 -> ROk("Rate16000")
      [] b = 24000 -> ROk("Rate24000")
      [] b = 32000 -> ROk("Rate32000")
      [] b = 40000 -> ROk("Rate40000")
      [] OTHER -> RErr("InvalidInput")

Rate_try_from(codec, b) ==
    IF codec = "G722" THEN G722Rate_try_from(b) ELSE G726Rate_try_from(b)

\* Constructors that take a rate.
RateCtors == {<<"G722", "G722Encoder::new">>, <<"G722", "G722Decoder::new">>,
              <<"G726", "G726State::new">>}

NoEnum ==
    [bound |-> FALSE, disc |-> [st \in T4Statuses |-> 0], op |-> "none", who |-> "none",
     arg |-> 0, ok |-> FALSE, val |-> "none", raw |-> 0, inits |-> 0]

EnumInit == en = NoEnum

\* The build binds the native status values to the enumerators.
BindStatus(d) ==
    /\ ~en.bound
    /\ en' = [en EXCEPT !.bound = TRUE, !.disc = d]
    /\ UNCHANGED <<lifeVars, callVars, tramp, hs, g, bk, hd, dt, pf>>

\* T4DecodeStatus::try_from(value).
StatusTryFrom(value) ==
    /\ en.bound
    /\ en' = [en EXCEPT !.op = "try_from", !.who = "T4DecodeStatus", !.arg = value,
                        !.ok = T4DecodeStatus_try_from(en.disc, value).ok,
                        !.val = T4DecodeStatus_try_from(en.disc, value).val,
                        !.raw = 0]
    /\ UNCHANGED <<lifeVars, callVars, tramp, hs, g, bk, hd, dt, pf>>

\* i32::from(st).
StatusInto(st) ==
    /\ en.bound
    /\ en' = [en EXCEPT !.op = "into", !.who = "T4DecodeStatus", !.arg = 0, !.ok = TRUE,
                        !.val = st, !.raw = T4DecodeStatus_into_i32(en.disc, st)]
    /\ UNCHANGED <<lifeVars, callVars, tramp, hs, g, bk, hd, dt, pf>>

\* A put / put_bit whose native call returns rc.
DecoderPut(who, rc) ==
    /\ en.bound
    /\ en' = [en EXCEPT !.op = "put", !.who = who, !.arg = rc, !.ok = TRUE,
                        !.val = T4Rx_put(en.disc, rc), !.raw = 0]
    /\ UNCHANGED <<lifeVars, callVars, tramp, hs, g, bk, hd, dt, pf>>

\* G722Rate::try_from(b) / G726Rate::try_from(b): no native call.
RateTryFrom(codec, b) ==
    /\ en' = [en EXCEPT !.op = "rate_try_from", !.who = codec, !.arg = b,
                        !.ok = Rate_try_from(codec, b).ok,
                        !.val = Rate_try_from(codec, b).val,
                        !.raw = IF Rate_try_from(codec, b).ok
                                THEN bps(codec, Rate_try_from(codec, b).val) ELSE 0]
    /\ UNCHANGED <<lifeVars, callVars, tramp, hs, g, bk, hd, dt, pf>>

\* G722Encoder::new / G722Decoder::new / G726State::new with a rate value:
\* the initializer receives rate.as_raw(); ok is whether it returned a state.
CodecNew(ctor, rate, ok) ==
    /\ ctor \in RateCtors
    /\ rate \in RatesOf(ctor[1])
    /\ en.inits < MaxNew
    /\ en' = [en EXCEPT !.op = "new", !.who = ctor[2], !.arg = 0, !.ok = NonNullNew(IF ok THEN 1 ELSE NULL),
                        !.val = rate, !.raw = as_raw(ctor[1], rate), !.inits = @ + 1]
    /\ UNCHANGED <<lifeVars, callVars, tramp, hs, g, bk, hd, dt, pf>>

EnumNext ==
    \/ \E d \in StatusBindings : BindStatus(d)
    \/ \E value \in StatusInputs : StatusTryFrom(value)
    \/ \E st \in T4Statuses : StatusInto(st)
    \/ \E who \in PutOps, rc \in StatusInputs : DecoderPut(who, rc)
    \/ \E codec \in RateCodecs, b \in RateInputs : RateTryFrom(codec, b)
    \/ \E ctor \in RateCtors, rate \in G722Rates \cup G726Rates, ok \in BOOLEAN :
          CodecNew(ctor, rate, ok)

\* ================================================================ SpecBulk
\* The bulk codec calls: each takes an output and an input slice.
BulkOps ==
    {"G711State::encode", "G711State::decode", "G711State::transcode",
     "G722Encoder::encode", "G722Decoder::decode",
     "G726State::encode", "G726State::decode"}
G711Ops == {"G711State::encode", "G711State::decode", "G711State::transcode"}

BufLens == 0..MaxBuf

Min(a, b) == IF a <= b THEN a ELSE b

\* The length argument of the native call: input.len().min(c_int::MAX) as
\* c_int.  The output slice contributes its pointer only.
NativeLen(inLen) == Min(inLen, C_INT_MAX)

\* Elements the native engine writes for len input elements: one per input
\* element for G.711, as many as the codec's rate gives for G.722 and G.726
\* (up to two per input element).  It never sees the output slice's length.
NativeWrites(op, len) == IF op \in G711Ops THEN {len} ELSE 0..(2 * len)

NoBulk == [op |-> "none", inLen |-> 0, outLen |-> 0, len |-> 0, written |-> 0, ret |-> 0]

BulkInit == bk = NoBulk

\* One bulk call with an output slice of outLen elements and an input slice
\* of inLen elements; the engine writes w elements behind the output pointer
\* and returns w, which the wrapper returns as usize.
BulkCall(op, outLen, inLen, w) ==
    /\ w \in NativeWrites(op, NativeLen(inLen))
    /\ bk' = [op |-> op, inLen |-> inLen, outLen |-> outLen, len |-> NativeLen(inLen),
              written |-> w, ret |-> w]
    /\ UNCHANGED <<lifeVars, callVars, tramp, hs, g, en, hd, dt, pf>>

BulkNext ==
    \E op \in BulkOps, outLen \in BufLens, inLen \in BufLens, w \in 0..(2 * MaxBuf) :
        BulkCall(op, outLen, inLen, w)

\* ============================================================ FairSpecHdlc
\* The HDLC framer.  The wrappers are hdlc.rs; the native transmitter and
\* receiver behind them are modelled as the standard bit-level framer: 0x7E
\* flags, zero insertion after five ones, ITU CRC-16 or CRC-32 sent low bit
\* first.
HdlcBytes == {49, 126}
HdlcFrames == UNION {[1..n -> HdlcBytes] : n \in 1..MaxFrameLen}
Flag == <<0, 1, 1, 1, 1, 1, 1, 0>>
INTER_FRAME_FLAGS == 2
NoBit == 0 - 1

CrcWidth(crc32) == IF crc32 THEN 32 ELSE 16
CrcTaps(crc32) ==
    IF crc32 THEN {5, 8, 9, 15, 19, 20, 21, 23, 24, 26, 27, 29, 30, 31} ELSE {3, 10, 15}

ByteBits(b) == [i \in 1..8 |-> (b \div 2^(i - 1)) % 2]
ByteOf(bits) ==
    bits[1] + 2 * bits[2] + 4 * bits[3] + 8 * bits[4] + 16 * bits[5] + 32 * bits[6]
    + 64 * bits[7] + 128 * bits[8]

RECURSIVE FrameBits(_)
FrameBits(data) ==
    IF data = <<>> THEN <<>> ELSE ByteBits(Head(data)) \o FrameBits(Tail(data))

RECURSIVE BitsToBytes(_)
BitsToBytes(bits) ==
    IF Len(bits) < 8 THEN <<>>
    ELSE <<ByteOf(SubSeq(bits, 1, 8))>> \o BitsToBytes(SubSeq(bits, 9, Len(bits)))

CrcStep(reg, bit, crc32) ==
    LET sh == Tail(reg) \o <<0>>
    IN  IF reg[1] # bit
        THEN [i \in 1..Len(reg) |-> IF (i - 1) \in CrcTaps(crc32) THEN 1 - sh[i] ELSE sh[i]]
        ELSE sh

RECURSIVE CrcRun(_, _, _)
CrcRun(reg, bits, crc32) ==
    IF bits = <<>> THEN reg
    ELSE CHOOSE out \in {CrcRun(r, Tail(bits), crc32) :
                            r \in {CrcStep(reg, Head(bits), crc32)}} : TRUE

\* The checksum field as sent on the line.
CrcField(bits, crc32) ==
    CHOOSE f \in {[i \in 1..Len(r) |-> 1 - r[i]] :
                    r \in {CrcRun([i \in 1..CrcWidth(crc32) |-> 1], bits, crc32)}} : TRUE

\* Zero insertion after five consecutive ones.
RECURSIVE Stuff(_, _)
Stuff(bits, ones) ==
    IF bits = <<>> THEN <<>>
    ELSE IF Head(bits) = 0 THEN <<0>> \o Stuff(Tail(bits), 0)
    ELSE IF ones = 4 THEN <<1, 0>> \o Stuff(Tail(bits), 0)
    ELSE <<1>> \o Stuff(Tail(bits), ones + 1)

\* Native transmitter: position inside the flag being sent, flags still owed
\* before the next frame, line bits of the frame in progress.
NoTx == [ph |-> 0, gap |-> 0, line |-> <<>>]

\* hdlc_tx_frame, non-progressive: refused while a frame is in progress.
hdlc_tx_frame(tx, data, crc32) ==
    IF tx.line # <<>>
    THEN [rc |-> 0 - 1, tx |-> tx]
    ELSE [rc |-> 0,
          tx |-> [tx EXCEPT !.line =
                    Stuff(FrameBits(data) \o CrcField(FrameBits(data), crc32), 0)]]

\* hdlc_tx_get_bit: the next frame bit at a flag boundary, else the next bit
\* of an idle flag.
hdlc_tx_get_bit(tx) ==
    IF tx.ph = 0 /\ tx.gap = 0 /\ tx.line # <<>>
    THEN [bit |-> Head(tx.line),
          tx |-> [tx EXCEPT !.line = Tail(@),
                            !.gap = IF Len(tx.line) = 1 THEN INTER_FRAME_FLAGS ELSE 0]]
    ELSE [bit |-> Flag[tx.ph + 1],
          tx |-> [tx EXCEPT !.ph = (@ + 1) % 8,
                            !.gap = IF tx.ph = 7 /\ @ > 0 THEN @ - 1 ELSE @]]

\* Native receiver: framing seen, ones in a row, bits of the frame so far.
NoRx == [framed |-> FALSE, ones |-> 0, buf |-> <<>>]

NoEvent == [kind |-> "none", pktNull |-> TRUE, bytes |-> <<>>, len |-> 0, ok |-> 0]

\* What a closing flag makes of the bits before it: the flag's own first six
\* bits are dropped, a whole number of bytes with a good checksum is a frame.
FrameEvent(rx, crc32) ==
    LET bits == IF Len(rx.buf) >= 6 THEN SubSeq(rx.buf, 1, Len(rx.buf) - 6) ELSE <<>>
        w == CrcWidth(crc32)
        body == SubSeq(bits, 1, Len(bits) - w)
        good == /\ Len(bits) >= w + 8
                /\ Len(bits) % 8 = 0
                /\ CrcField(body, crc32) = SubSeq(bits, Len(bits) - w + 1, Len(bits))
    IN  IF ~rx.framed
        THEN [kind |-> "status", pktNull |-> TRUE, bytes |-> <<>>, len |-> 0 - 1, ok |-> 1]
        ELSE IF good
        THEN [kind |-> "frame", pktNull |-> FALSE, bytes |-> BitsToBytes(body),
              len |-> Len(body) \div 8, ok |-> 1]
        ELSE NoEvent

\* hdlc_rx_put_bit with report_bad_frames = false, framing_ok_threshold = 1.
hdlc_rx_put_bit(rx, bit, crc32) ==
    IF bit = 1
    THEN IF rx.ones < 5
         THEN [rx |-> [rx EXCEPT !.ones = @ + 1,
                                 !.buf = IF rx.framed THEN Append(@, 1) ELSE @],
               ev |-> NoEvent]
         ELSE IF rx.ones = 5
         THEN [rx |-> [rx EXCEPT !.ones = 6], ev |-> NoEvent]
         ELSE [rx |-> [framed |-> FALSE, ones |-> 7, buf |-> <<>>], ev |-> NoEvent]
    ELSE IF rx.ones = 5
         THEN [rx |-> [rx EXCEPT !.ones = 0], ev |-> NoEvent]
         ELSE IF rx.ones = 6
         THEN [rx |-> [framed |-> TRUE, ones |-> 0, buf |-> <<>>],
               ev |-> FrameEvent(rx, crc32)]
         ELSE [rx |-> [rx EXCEPT !.ones = 0,
                                 !.buf = IF rx.framed THEN Append(@, 0) ELSE @],
               ev |-> NoEvent]

\* The trampoline's `ok != 0`.
crc_ok_inverted(ok) == ok = 0
crc_ok(ok) == ok # 0

\* The test handler's record of one invocation.
Delivery(ev) ==
    [data |-> hdlc_rx_frame_trampoline(FALSE, ev.pktNull, ev.bytes, ev.len, ev.ok).view,
     crc_ok |-> crc_ok(ev.ok)]

\* The wrapper hands the native side `bit as c_int` of the bool it is given.
BoolAsInt(b) == IF b THEN 1 ELSE 0

NoHdlc ==
    [up |-> FALSE, crc32 |-> FALSE, tx |-> NoTx, rx |-> NoRx, wire |-> NoBit,
     sent |-> <<>>, pre |-> TRUE, log |-> <<>>, res |-> "none"]

HdlcInit == hd = NoHdlc

\* HdlcRx::new(crc32, false, 1, handler) and HdlcTx::new(crc32, 2, false, None).
HdlcSetup(crc32) ==
    /\ ~hd.up
    /\ hd' = [hd EXCEPT !.up = TRUE, !.crc32 = crc32]
    /\ UNCHANGED <<lifeVars, callVars, tramp, hs, g, en, bk, dt, pf>>

\* HdlcTx::frame(data).  pre records that every frame queued so far was
\* queued with framing established at the receiver.
HdlcFrame(data) ==
    /\ hd.up
    /\ Len(hd.sent) < MaxFrames
    /\ LET r == hdlc_tx_frame(hd.tx, data, hd.crc32)
       IN  hd' = [hd EXCEPT !.tx = r.tx,
                            !.res = RcResult(r.rc).res,
                            !.sent = IF r.rc = 0 THEN Append(@, data) ELSE @,
                            !.pre = IF r.rc = 0 THEN @ /\ hd.rx.framed ELSE @]
    /\ UNCHANGED <<lifeVars, callVars, tramp, hs, g, en, bk, dt, pf>>

\* HdlcTx::get_bit().
HdlcGetBit ==
    /\ hd.up /\ hd.wire = NoBit
    /\ hd' = [hd EXCEPT !.tx = hdlc_tx_get_bit(hd.tx).tx,
                        !.wire = hdlc_tx_get_bit(hd.tx).bit]
    /\ UNCHANGED <<lifeVars, callVars, tramp, hs, g, en, bk, dt, pf>>

\* HdlcRx::put_bit(bit != 0); a frame or status event reaches the handler
\* through the trampoline before put_bit returns.
HdlcPutBit ==
    /\ hd.up /\ hd.wire # NoBit
    /\ LET r == hdlc_rx_put_bit(hd.rx, BoolAsInt(hd.wire # 0), hd.crc32)
       IN  hd' = [hd EXCEPT !.rx = r.rx,
                            !.wire = NoBit,
                            !.log = IF r.ev.kind = "none" THEN @
                                    ELSE Append(@, Delivery(r.ev))]
    /\ UNCHANGED <<lifeVars, callVars, tramp, hs, g, en, bk, dt, pf>>

HdlcNext ==
    \/ \E crc32 \in BOOLEAN : HdlcSetup(crc32)
    \/ \E data \in HdlcFrames : HdlcFrame(data)
    \/ HdlcGetBit
    \/ HdlcPutBit

\* ------------------------------------------------------------------- DTMF
\* Digit text: '1', 'A' and a NUL byte.
DtmfBytes == {0, 49, 65}
DtmfTexts == UNION {[1..n -> DtmfBytes] : n \in 0..MaxDigits}
MAX_DTMF_DIGITS == 128

\* Native generator and detector, in units of the shortest tone burst the
\* detector accepts: a digit is its tone for OnLen samples, then silence (0)
\* for OffLen samples; the detector registers a digit when its tone has
\* lasted DetectLen samples.
OnLen == 2
OffLen == 1
DetectLen == 2

RECURSIVE ToneSamples(_)
ToneSamples(digits) ==
    IF digits = <<>> THEN <<>>
    ELSE [i \in 1..(OnLen + OffLen) |-> IF i <= OnLen THEN Head(digits) ELSE 0]
         \o ToneSamples(Tail(digits))

\* dtmf_tx_put(s, digits, -1): the digits up to the terminator are queued.
dtmf_tx_put(line, digits) == line \o ToneSamples(digits)

\* dtmf_tx(s, amp, max_samples): the samples produced and what stays queued.
dtmf_tx(line, max_samples) ==
    LET n == Min(max_samples, Len(line))
    IN  [n |-> n, amp |-> SubSeq(line, 1, n), line |-> SubSeq(line, n + 1, Len(line))]

NoDtmfRx == [last |-> 0, run |-> 0, digits |-> <<>>]

\* dtmf_rx(s, amp, samples).
RECURSIVE dtmf_rx(_, _)
dtmf_rx(rx, amp) ==
    IF amp = <<>> THEN rx
    ELSE LET sym == Head(amp)
             run == IF sym = rx.last THEN Min(rx.run + 1, DetectLen + 1) ELSE 1
         IN  dtmf_rx([last |-> sym, run |-> run,
                      digits |-> IF sym # 0 /\ run = DetectLen
                                 THEN Append(rx.digits, sym) ELSE rx.digits],
                     Tail(amp))

\* DtmfTx::put: Err(InvalidInput) on an interior NUL, else the digits reach
\* the native queue.
DtmfTx_put(line, digits) ==
    IF CStringNew(digits)
    THEN [res |-> "Ok", line |-> dtmf_tx_put(line, digits)]
    ELSE [res |-> "InvalidInput", line |-> line]

\* DtmfRx::get(max_digits): a zeroed buffer of max + 1 bytes, dtmf_rx_get
\* moves the first n <= max detected digits into it, truncate(n), then
\* String::from_utf8_lossy.
DtmfRx_get_untruncated(rx, max_digits) ==
    LET max == Min(max_digits, MAX_DTMF_DIGITS)
        n == Min(max, Len(rx.digits))
    IN  [out |-> [i \in 1..(max + 1) |-> IF i <= n THEN rx.digits[i] ELSE 0],
         rx |-> [rx EXCEPT !.digits = SubSeq(@, n + 1, Len(@))]]
DtmfRx_get(rx, max_digits) ==
    LET max == Min(max_digits, MAX_DTMF_DIGITS)
        n == Min(max, Len(rx.digits))
        buf == [i \in 1..(max + 1) |-> IF i <= n THEN rx.digits[i] ELSE 0]
        text == SubSeq(buf, 1, n)
    IN  [out |-> IF Utf8Valid(text) THEN text ELSE <<239, 191, 189>>,
         rx |-> [rx EXCEPT !.digits = SubSeq(@, n + 1, Len(@))]]

NoGet == [max |-> 0, out |-> <<>>, due |-> <<>>, done |-> FALSE]

NoDtmf ==
    [sent |-> <<>>, res |-> "none", line |-> <<>>, audio |-> <<>>, fed |-> 0,
     rx |-> NoDtmfRx, got |-> <<>>, gets |-> 0, get |-> NoGet]

DtmfInit == dt = NoDtmf

\* tx.put(digits).
DtmfPut(digits) ==
    /\ Len(dt.sent) + Len(digits) <= MaxDigits
    /\ LET r == DtmfTx_put(dt.line, digits)
       IN  dt' = [dt EXCEPT !.res = r.res, !.line = r.line,
                            !.sent = IF r.res = "Ok" THEN @ \o digits ELSE @]
    /\ UNCHANGED <<lifeVars, callVars, tramp, hs, g, en, bk, hd, pf>>

\* tx.generate(&mut audio[total_generated..]) with len samples of room.
DtmfGenerate(len) ==
    /\ LET r == dtmf_tx(dt.line, Min(len, C_INT_MAX))
       IN  dt' = [dt EXCEPT !.line = r.line, !.audio = @ \o r.amp]
    /\ UNCHANGED <<lifeVars, callVars, tramp, hs, g, en, bk, hd, pf>>

\* rx.rx(&audio[offset..end]): the next len generated samples, in order.
DtmfFeed(len) ==
    /\ dt.fed < Len(dt.audio)
    /\ LET end == Min(dt.fed + len, Len(dt.audio))
       IN  dt' = [dt EXCEPT !.rx = dtmf_rx(@, SubSeq(dt.audio, dt.fed + 1, end)),
                            !.fed = end]
    /\ UNCHANGED <<lifeVars, callVars, tramp, hs, g, en, bk, hd, pf>>

\* rx.get(max_digits).  due is what was queued and not yet returned, done
\* whether generation had ended and every sample had been fed.
DtmfGet(max_digits) ==
    /\ dt.gets < MaxDigits
    /\ LET r == DtmfRx_get(dt.rx, max_digits)
       IN  dt' = [dt EXCEPT !.rx = r.rx, !.got = @ \o r.out, !.gets = @ + 1,
                            !.get = [max |-> max_digits, out |-> r.out,
                                     due |-> SubSeq(dt.sent, Len(dt.got) + 1, Len(dt.sent)),
                                     done |-> dt.line = <<>> /\ dt.fed = Len(dt.audio)]]
    /\ UNCHANGED <<lifeVars, callVars, tramp, hs, g, en, bk, hd, pf>>

DtmfNext ==
    \/ \E digits \in DtmfTexts : DtmfPut(digits)
    \/ \E len \in 0..MaxChunk : DtmfGenerate(len)
    \/ \E len \in 1..MaxChunk : DtmfFeed(len)
    \/ \E max_digits \in 0..(MaxDigits + 1) : DtmfGet(max_digits)

\* ----------------------------------------------------- wrapper functions
\* `x as uN` of a signed x: x itself when x >= 0, else x + 2^N, written as
\* wrap * 2^N + v.
AsUnsigned(x) == IF x >= 0 THEN [wrap |-> 0, v |-> x] ELSE [wrap |-> 1, v |-> x]
Max(a, b) == IF a >= b THEN a ELSE b

\* t4_tx_get / t4_t6_encode_get: a count of at most max_len bytes, or a
\* negative value.
GetOps == {"T4Tx", "T4T6Encoder"}
NativeGetReturns(max_len) == (0 - MaxRc)..max_len

\* T4Tx::get hands the native side buf.len(), T4T6Encoder::get
\* buf.len().min(c_int::MAX).
GetMaxLen(who, len) == IF who = "T4Tx" THEN len ELSE Min(len, C_INT_MAX)

\* rc.max(0) as usize.
T4_get_unclamped(rc) == AsUnsigned(rc)
T4_get(rc) == AsUnsigned(Max(rc, 0))

NoFn == [op |-> "none", who |-> "none", arg |-> 0, arg2 |-> 0, out |-> <<>>]

FnInit == pf = NoFn

\* <who>::get(buf) with buf.len() = len, the native call returning rc.
T4Get(who, len, rc) ==
    /\ rc \in NativeGetReturns(GetMaxLen(who, len))
    /\ pf' = [op |-> "get", who |-> who, arg |-> len, arg2 |-> rc, out |-> T4_get(rc)]
    /\ UNCHANGED <<lifeVars, callVars, tramp, hs, g, en, bk, hd, dt>>

\* The arms of completion_code's match, in the order of their codes 0..61.
T30_ERR ==
    <<"T30_ERR_OK", "T30_ERR_CEDTONE", "T30_ERR_T0_EXPIRED",
       "T30_ERR_T1_EXPIRED", "T30_ERR_T3_EXPIRED", "T30_ERR_HDLC_CARRIER",
       "T30_ERR_CANNOT_TRAIN", "T30_ERR_OPER_INT_FAIL",
       "T30_ERR_INCOMPATIBLE", "T30_ERR_RX_INCAPABLE",
       "T30_ERR_TX_INCAPABLE", "T30_ERR_NORESSUPPORT",
       "T30_ERR_NOSIZESUPPORT", "T30_ERR_UNEXPECTED", "T30_ERR_TX_BADDCS",
       "T30_ERR_TX_BADPG", "T30_ERR_TX_ECMPHD", "T30_ERR_TX_GOTDCN",
       "T30_ERR_TX_INVALRSP", "T30_ERR_TX_NODIS", "T30_ERR_TX_PHBDEAD",
       "T30_ERR_TX_PHDDEAD", "T30_ERR_TX_T5EXP", "T30_ERR_RX_ECMPHD",
       "T30_ERR_RX_GOTDCS", "T30_ERR_RX_INVALCMD", "T30_ERR_RX_NOCARRIER",
       "T30_ERR_RX_NOEOL", "T30_ERR_RX_NOFAX", "T30_ERR_RX_T2EXPDCN",
       "T30_ERR_RX_T2EXPD", "T30_ERR_RX_T2EXPFAX", "T30_ERR_RX_T2EXPMPS",
       "T30_ERR_RX_T2EXPRR", "T30_ERR_RX_T2EXP", "T30_ERR_RX_DCNWHY",
       "T30_ERR_RX_DCNDATA", "T30_ERR_RX_DCNFAX", "T30_ERR_RX_DCNPHD",
       "T30_ERR_RX_DCNRRD", "T30_ERR_RX_DCNNORTN", "T30_ERR_FILEERROR",
       "T30_ERR_NOPAGE", "T30_ERR_BADTIFF", "T30_ERR_BADPAGE",
       "T30_ERR_BADTAG", "T30_ERR_BADTIFFHDR", "T30_ERR_NOMEM",
       "T30_ERR_RETRYDCN", "T30_ERR_CALLDROPPED", "T30_ERR_NOPOLL",
       "T30_ERR_IDENT_UNACCEPTABLE", "T30_ERR_SUB_UNACCEPTABLE",
       "T30_ERR_SEP_UNACCEPTABLE", "T30_ERR_PSA_UNACCEPTABLE",
       "T30_ERR_SID_UNACCEPTABLE", "T30_ERR_PWD_UNACCEPTABLE",
       "T30_ERR_TSA_UNACCEPTABLE", "T30_ERR_IRA_UNACCEPTABLE",
       "T30_ERR_CIA_UNACCEPTABLE", "T30_ERR_ISP_UNACCEPTABLE",
       "T30_ERR_CSA_UNACCEPTABLE">>

CodeInputs == ((0 - MaxCode)..MaxCode) \cup {I32_MIN, C_INT_MAX}

\* T30State::completion_code: match code as u32; None is <<>>, Some(e) <<e>>.
completion_code_clamped(code) ==
    LET u == AsUnsigned(code)
    IN  IF u.wrap = 0 THEN <<T30_ERR[Min(u.v, Len(T30_ERR) - 1) + 1]>> ELSE <<>>
completion_code(code) ==
    LET u == AsUnsigned(code)
    IN  IF u.wrap = 0 /\ u.v \in 0..(Len(T30_ERR) - 1) THEN <<T30_ERR[u.v + 1]>> ELSE <<>>

\* T30Error::is_ok.
is_ok(e) == e = "T30_ERR_OK"

\* The arms of T30ErrDescription::description that name a variant.
Descriptions ==
    [T30_ERR_OK |-> "OK",
     T30_ERR_CEDTONE |-> "CED tone detected",
     T30_ERR_T0_EXPIRED |-> "T0 timer expired",
     T30_ERR_T1_EXPIRED |-> "T1 timer expired",
     T30_ERR_T3_EXPIRED |-> "T3 timer expired",
     T30_ERR_HDLC_CARRIER |-> "HDLC carrier lost",
     T30_ERR_CANNOT_TRAIN |-> "cannot train modem",
     T30_ERR_OPER_INT_FAIL |-> "operator intervention failed",
     T30_ERR_INCOMPATIBLE |-> "incompatible remote capabilities",
     T30_ERR_RX_INCAPABLE |-> "remote cannot receive",
     T30_ERR_TX_INCAPABLE |-> "remote cannot transmit",
     T30_ERR_NORESSUPPORT |-> "resolution not supported",
     T30_ERR_NOSIZESUPPORT |-> "image size not supported",
     T30_ERR_UNEXPECTED |-> "unexpected message received",
     T30_ERR_TX_BADDCS |-> "bad DCS received during transmit",
     T30_ERR_TX_BADPG |-> "bad page received during transmit",
     T30_ERR_TX_ECMPHD |-> "ECM page error during transmit",
     T30_ERR_TX_GOTDCN |-> "DCN received during transmit",
     T30_ERR_TX_INVALRSP |-> "invalid response during transmit",
     T30_ERR_TX_NODIS |-> "no DIS received",
     T30_ERR_TX_PHBDEAD |-> "phase B dead during transmit",
     T30_ERR_TX_PHDDEAD |-> "phase D dead during transmit",
     T30_ERR_TX_T5EXP |-> "T5 timer expired during transmit",
     T30_ERR_RX_ECMPHD |-> "ECM page error during receive",
     T30_ERR_RX_GOTDCS |-> "unexpected DCS during receive",
     T30_ERR_RX_INVALCMD |-> "invalid command during receive",
     T30_ERR_RX_NOCARRIER |-> "no carrier during receive",
     T30_ERR_RX_NOEOL |-> "no end-of-line during receive",
     T30_ERR_RX_NOFAX |-> "no fax detected",
     T30_ERR_RX_T2EXPDCN |-> "T2 expired, DCN received",
     T30_ERR_RX_T2EXPD |-> "T2 expired in phase D",
     T30_ERR_RX_T2EXPFAX |-> "T2 expired waiting for fax",
     T30_ERR_RX_T2EXPMPS |-> "T2 expired waiting for MPS",
     T30_ERR_RX_T2EXPRR |-> "T2 expired waiting for RR",
     T30_ERR_RX_T2EXP |-> "T2 expired",
     T30_ERR_RX_DCNWHY |-> "DCN received unexpectedly",
     T30_ERR_RX_DCNDATA |-> "DCN received during data",
     T30_ERR_RX_DCNFAX |-> "DCN received during fax",
     T30_ERR_RX_DCNPHD |-> "DCN received during phase D",
     T30_ERR_RX_DCNRRD |-> "DCN received during RR/D",
     T30_ERR_RX_DCNNORTN |-> "DCN received, no retrain",
     T30_ERR_FILEERROR |-> "file I/O error",
     T30_ERR_NOPAGE |-> "no page to send",
     T30_ERR_BADTIFF |-> "bad TIFF file",
     T30_ERR_BADPAGE |-> "bad page",
     T30_ERR_BADTAG |-> "bad TIFF tag",
     T30_ERR_BADTIFFHDR |-> "bad TIFF header",
     T30_ERR_NOMEM |-> "out of memory"]

\* description(): the named arms, then `_ => "unknown T.30 error"`.
description(e) ==
    IF e \in DOMAIN Descriptions THEN Descriptions[e] ELSE "unknown T.30 error"

\* T30State::completion_code(code), then is_ok() on the error returned.
CompletionCode(code) ==
    /\ pf' = [op |-> "completion_code", who |-> "T30State", arg |-> code, arg2 |-> 0,
              out |-> [res |-> completion_code(code),
                       ok |-> completion_code(code) # <<>>
                              /\ is_ok(completion_code(code)[1])]]
    /\ UNCHANGED <<lifeVars, callVars, tramp, hs, g, en, bk, hd, dt>>

\* format!("{}", T30Error(e)).
Display(e) ==
    /\ pf' = [op |-> "display", who |-> e, arg |-> 0, arg2 |-> 0, out |-> description(e)]
    /\ UNCHANGED <<lifeVars, callVars, tramp, hs, g, en, bk, hd, dt>>

\* What dtmf_rx_status returns: 0 for no detection, 'x' for the uncertain
\* condition, else the character of the digit detected ("0123456789*#ABCD").
MAYBE == 120
DigitChars == (48..57) \cup {42, 35} \cup (65..68)
StatusRaws == {0, MAYBE} \cup DigitChars

\* DtmfRx::status: None is <<>>, Some(c) is <<c>> with c = raw as u8 as char.
DtmfRx_status_digits_only(raw) == IF raw = 0 \/ raw = MAYBE THEN <<>> ELSE <<AsU8(raw)>>
DtmfRx_status(raw) == IF raw = 0 THEN <<>> ELSE <<AsU8(raw)>>

\* rx.status() with the native status raw.
DtmfStatus(raw) ==
    /\ pf' = [op |-> "status", who |-> "DtmfRx", arg |-> raw, arg2 |-> 0,
              out |-> DtmfRx_status(raw)]
    /\ UNCHANGED <<lifeVars, callVars, tramp, hs, g, en, bk, hd, dt>>

\* LogLevel in the order of its discriminants 0..10, and the bits of the
\* LogShowFlags constants.
LogLevels ==
    <<"None", "Error", "Warning", "ProtocolError", "ProtocolWarning", "Flow",
      "Flow2", "Flow3", "Debug", "Debug2", "Debug3">>
LogShowFlags == <<256, 512, 1024, 2048, 4096, 8192, 32768>>
FlagSets == [1..Len(LogShowFlags) -> 0..1]

\* `level as i32`.
LogLevel_as_i32(level) == (CHOOSE i \in 1..Len(LogLevels) : LogLevels[i] = level) - 1

\* LogLevel::try_from(value).
LogLevel_try_from(value) ==
    IF value \in 0..10 THEN ROk(LogLevels[value + 1]) ELSE RErr("InvalidInput")

\* flags.bits() of the union of the chosen constants.
RECURSIVE FlagsBits(_, _)
FlagsBits(f, i) ==
    IF i = 0 THEN 0 ELSE BitOr(f[i] * LogShowFlags[i], FlagsBits(f, i - 1))

\* set_level_with_flags: the word handed to span_log_set_level.
set_level_with_flags_shifted(level, bits) == BitOr(Shl(LogLevel_as_i32(level), 8), bits)
set_level_with_flags(level, bits) == BitOr(LogLevel_as_i32(level), bits)

\* log.set_level_with_flags(level, flags).
SetLevelWithFlags(level, f) ==
    /\ pf' = [op |-> "set_level", who |-> level, arg |-> FlagsBits(f, Len(LogShowFlags)),
              arg2 |-> 0,
              out |-> set_level_with_flags(level, FlagsBits(f, Len(LogShowFlags)))]
    /\ UNCHANGED <<lifeVars, callVars, tramp, hs, g, en, bk, hd, dt>>

\* LogLevel::try_from(value).
LevelTryFrom(value) ==
    /\ pf' = [op |-> "level_try_from", who |-> "LogLevel", arg |-> value, arg2 |-> 0,
              out |-> LogLevel_try_from(value)]
    /\ UNCHANGED <<lifeVars, callVars, tramp, hs, g, en, bk, hd, dt>>

\* Each behaviour applies one function to one input.
FnNext ==
    \/ pf.op = "none" /\ \E who \in GetOps, len \in 0..MaxBuf, rc \in (0 - MaxRc)..MaxBuf :
                              T4Get(who, len, rc)
    \/ pf.op = "none" /\ \E code \in CodeInputs : CompletionCode(code)
    \/ pf.op = "none" /\ \E i \in 1..Len(T30_ERR) : Display(T30_ERR[i])
    \/ pf.op = "none" /\ \E raw \in StatusRaws : DtmfStatus(raw)
    \/ pf.op = "none" /\ \E i \in 1..Len(LogLevels), f \in FlagSets :
                              SetLevelWithFlags(LogLevels[i], f)
    \/ pf.op = "none" /\ \E value \in CodeInputs : LevelTryFrom(value)

\* ========================================================== specifications
Init == LifeInit /\ CallInit /\ TrampInit /\ ThreadInit /\ G711Init /\ EnumInit /\ BulkInit /\ HdlcInit
        /\ DtmfInit /\ FnInit

Spec == Init /\ [][Next]_vars

SpecCall == Init /\ [][CallNext]_vars

SpecTramp == Init /\ [][TrampNext]_vars

SpecThread == Init /\ [][ThreadNext]_vars

SpecG711 == Init /\ [][G711Next]_vars

SpecEnum == Init /\ [][EnumNext]_vars

SpecBulk == Init /\ [][BulkNext]_vars

SpecDtmf == Init /\ [][DtmfNext]_vars

SpecFn == Init /\ [][FnNext]_vars

\* The transfer loop keeps moving bits: get_bit and put_bit are always taken
\* again.
FairSpecHdlc ==
    Init /\ [][HdlcNext]_vars /\ WF_vars(HdlcGetBit) /\ WF_vars(HdlcPutBit)

\* ================================================================== claims
NullPtr == <<NULL, "self">>
Torn(w) == w.st \in {"dropping", "dropped"}
Allocated == {n \in 1..MaxCtor : nat[n].st # "none"}
BoxesOf(s) == {b \in BoxIds : box[b].owner = s}
LiveBoxesOf(s) == {b \in BoxesOf(s) : box[b].st = "live"}
Newest(s) ==
    IF BoxesOf(s) = {} THEN NULL
    ELSE CHOOSE b \in BoxesOf(s) : \A c \in BoxesOf(s) : c <= b

\* C1: for every wrapper a constructor returned, the release function of its
\* native state has been called zero times while the wrapper is alive and
\* exactly once from the moment it is dropped, never more.
C1_ReleasedOnceAtDrop ==
    \A s \in Slots :
        LET w == wr[s]
        IN  (w.via = "ctor" /\ w.res = "Ok") =>
                /\ w.st = "alive" => (relCalls[w.ptr] = 0 /\ Live(w.ptr))
                /\ Torn(w) => (relCalls[w.ptr] = 1 /\ nat[w.ptr[1]].st = "freed")

C1_Witness ==
    \E s \in Slots, c \in Slots :
        /\ wr[s].via = "ctor" /\ wr[s].st = "dropped" /\ relCalls[wr[s].ptr] = 1
        /\ wr[c].via = "accessor" /\ wr[c].st = "dropped" /\ wr[c].ptr[1] = wr[s].ptr[1]

\* C2: a T30State or T38Core obtained from a parent's accessor never issues
\* t30_free / t38_core_free, whatever the order of the drops, and the parent's
\* native state is released at most once, exactly once when it is dropped.
C2_ChildNeverReleases ==
    /\ \A s \in Slots :
          (wr[s].via = "accessor" /\ wr[s].kind \in {"T30State", "T38Core"}) =>
              relCalls[wr[s].ptr] = 0
    /\ \A s \in Slots :
          (wr[s].via = "ctor" /\ wr[s].res = "Ok"
             /\ wr[s].kind \in {"FaxState", "T38Terminal", "T38Gateway"}) =>
              /\ relCalls[<<wr[s].ptr[1], "t30">>] = 0
              /\ relCalls[<<wr[s].ptr[1], "t38">>] = 0
              /\ relCalls[wr[s].ptr] = IF Torn(wr[s]) THEN 1 ELSE 0

C2_Witness ==
    \E par \in Slots, c \in Slots, d \in Slots :
        /\ wr[par].kind = "T38Terminal" /\ wr[par].st = "dropped"
        /\ wr[c].kind = "T30State" /\ wr[c].st = "dropped"
        /\ wr[d].kind = "T38Core" /\ wr[d].st = "alive"
        /\ wr[c].ptr[1] = wr[par].ptr[1] /\ wr[d].ptr[1] = wr[par].ptr[1]

\* C3: a LoggingState view obtained from a parent's get_logging_state never
\* issues span_log_free on the parent's logging state, and every native
\* object (the logging state embedded in a parent is released with the
\* parent) is released at most once.
C3_ViewNeverFreesLogging ==
    /\ \A s \in Slots :
          (wr[s].via = "accessor" /\ wr[s].kind = "LoggingState") =>
              relCalls[wr[s].ptr] = 0
    /\ \A n \in NatIds : relCalls[<<n, "log">>] + relCalls[<<n, "self">>] <= 1

\* C4: for an engine that registered a closure at construction, while the
\* native state exists its context pointer is the address of the wrapper's
\* closure box and that box is allocated; the box is freed only after the
\* native state has been released.
C4_ClosureOutlivesNative ==
    \A s \in Slots :
        LET w == wr[s]
        IN  (w.via = "ctor" /\ w.res = "Ok" /\ w.kind \in ClosureEngines
               /\ w.cb # NULL) =>
                /\ Live(w.ptr) => (ctx[w.ptr] = w.cb /\ box[w.cb].st = "live")
                /\ box[w.cb].st = "freed" => nat[w.ptr[1]].st = "freed"
                /\ w.st = "dropped" => box[w.cb].st = "freed"

C4_Witness ==
    \E s \in Slots :
        /\ wr[s].kind \in ClosureEngines /\ wr[s].st = "dropping"
        /\ wr[s].cb # NULL /\ invoked[wr[s].cb]
        /\ nat[wr[s].ptr[1]].st = "freed" /\ box[wr[s].cb].st = "live"

\* C5: on an owned LoggingState, at every point of every sequence of
\* set_message_handler calls the native context pointer refers to the live
\* box of the most recently supplied closure, and between calls the wrapper
\* retains exactly that one box (every earlier one has been freed).
C5_HandlerReplacement ==
    \A s \in Slots :
        LET w == wr[s]
        IN  (w.via = "ctor" /\ w.kind = "LoggingState" /\ w.st = "alive") =>
                /\ ctx[w.ptr] = Newest(s)
                /\ ctx[w.ptr] # NULL => box[ctx[w.ptr]].st = "live"
                /\ w.pend = NULL =>
                       /\ w.cb = Newest(s)
                       /\ LiveBoxesOf(s) = IF w.cb = NULL THEN {} ELSE {w.cb}

C5_Witness ==
    \E s \in Slots :
        /\ wr[s].via = "ctor" /\ wr[s].kind = "LoggingState" /\ wr[s].st = "alive"
        /\ wr[s].pend = NULL /\ wr[s].cb # NULL /\ invoked[wr[s].cb]
        /\ Cardinality(BoxesOf(s)) >= 3

\* C6: while a parent engine is alive, the context pointer held by its
\* embedded logging state never refers to freed closure storage, also after
\* a view that registered the handler has been dropped.
C6_ViewHandlerOutlivesView ==
    \A n \in NatIds :
        (nat[n].st = "live" /\ ctx[<<n, "log">>] # NULL) =>
            box[ctx[<<n, "log">>]].st = "live"

\* C8: when the native initializer (or accessor) returns null, the call
\* returns Err(InitFailed) and leaves no wrapper; the initializer ran once;
\* no native state exists for it and none is released; the closure boxed for
\* the construction is freed and was never invoked.
C8_InitFailure ==
    /\ \A s \in Slots :
          LET w == wr[s]
          IN  /\ w.inits <= 1
              /\ (w.via = "ctor" /\ w.inits = 1 /\ w.nret = NULL) =>
                     /\ w.st = "failed" /\ w.res = "InitFailed"
                     /\ w.cb # NULL => (box[w.cb].st = "freed" /\ ~invoked[w.cb])
              /\ (w.via = "accessor" /\ w.kind \in {"T30State", "T38Core"}
                    /\ w.nret = NULL) =>
                     (w.st = "failed" /\ w.res = "InitFailed")
              /\ w.st = "failed" => w.ptr = NullPtr
    /\ relCalls[NullPtr] = 0
    /\ Cardinality(Allocated) =
           Cardinality({s \in Slots : wr[s].via = "ctor" /\ wr[s].res = "Ok"})

C8_Witness ==
    \E s \in Slots :
        /\ wr[s].kind \in ClosureAlways /\ wr[s].res = "InitFailed"
        /\ wr[s].cb # NULL /\ box[wr[s].cb].st = "freed"

\* --------------------------------------------------------------- SpecTramp
NullOrEmptyPayload(t) == t.kind \in PayloadKinds /\ (t.ptrNull \/ t.len <= 0)

\* C7 (as claimed): every trampoline invoked with a null context pointer, or
\* with a null or zero-length payload, does not run the closure and reads
\* nothing through the payload pointer.
C7_NoOpOnNullOrEmpty ==
    (tramp.kind # "none" /\ (tramp.userNull \/ NullOrEmptyPayload(tramp))) =>
        (tramp.out.invoked = 0 /\ tramp.out.span = 0)

\* C7 (amended): every trampoline is a no-op on a null context pointer.  With
\* a context pointer and a null or zero-length payload, the DTMF
\* digits-received trampoline and the log trampoline (null text) are no-ops;
\* the HDLC frame-received, T.4 row-write and row-read trampolines run the
\* closure once on an empty view and read nothing through the payload
\* pointer; the log trampoline given an empty text reads its terminator and
\* runs the closure once on the empty text.
C7_NullContextNoOp ==
    tramp.kind # "none" =>
        /\ tramp.userNull => tramp.out = NoOp
        /\ (~tramp.userNull /\ NullOrEmptyPayload(tramp)) =>
              CASE tramp.kind = "dtmf_rx_callback" -> tramp.out = NoOp
                [] tramp.kind = "message_handler" ->
                      IF tramp.ptrNull THEN tramp.out = NoOp
                      ELSE /\ tramp.out.invoked = 1
                           /\ tramp.out.view = <<>>
                           /\ tramp.out.span = 1
                [] OTHER ->
                      /\ tramp.out.invoked = 1
                      /\ tramp.out.view = <<>>
                      /\ tramp.out.span = 0

C7_Witness ==
    /\ tramp.kind = "hdlc_rx_frame" /\ ~tramp.userNull /\ tramp.ptrNull
    /\ tramp.out.invoked = 1 /\ tramp.out.view = <<>>

\* ---------------------------------------------------------------- SpecCall
\* C9: a call whose text argument contains a NUL byte returns
\* Err(InvalidInput) and issues no native call: what the native side has
\* seen is unchanged, and for a constructor no initializer has run and no
\* handle exists.
C9_NulTextRejected ==
    [][(cres' # cres /\ cres'.class \in {"new", "text"} /\ ContainsNul(cres'.text)) =>
          (cres'.res = "InvalidInput" /\ cnat' = cnat /\ cw' = cw)]_vars

C9_Witness ==
    /\ cres.class = "text" /\ ContainsNul(cres.text) /\ cres.res = "InvalidInput"
    /\ cw = "T4Rx" /\ cnat.calls > 0 /\ ~ContainsNul(cnat.text)

\* C10: a wrapper method over a success/failure native call returns Ok(())
\* exactly when the native code is 0, and otherwise Err(ErrorCode(c)) with
\* the native code c unmodified.
C10_ReturnCode ==
    cres.class = "rc" =>
        /\ (cres.res = "Ok") <=> (cres.rc = 0)
        /\ cres.rc # 0 => (cres.res = "ErrorCode" /\ cres.code = cres.rc)

C10_Witness ==
    cres.class = "rc" /\ cres.rc > 0 /\ cres.res = "ErrorCode" /\ cres.code = cres.rc

\* The bytes the native side supplies to a text-carrying trampoline: len
\* bytes behind digits for DTMF, the C string behind text for the log.
SuppliedText(t) ==
    IF t.kind = "dtmf_rx_callback" THEN SubSeq(t.buf, 1, t.len) ELSE t.buf

\* A text-carrying trampoline reached its conversion: context and text
\* pointer are set and, for DTMF, the length is positive.
CarriesText(t) ==
    /\ t.kind \in {"dtmf_rx_callback", "message_handler"}
    /\ ~t.userNull /\ ~t.ptrNull
    /\ t.kind = "dtmf_rx_callback" => t.len > 0

\* C11: a text-carrying trampoline (DTMF digits received, log message) whose
\* native bytes are not valid UTF-8 drops the event: the closure is not
\* invoked and nothing is returned or reported; with valid bytes it invokes
\* the closure exactly once with a view of exactly the supplied bytes.
C11_TextValidated ==
    CarriesText(tramp) =>
        IF Utf8Valid(SuppliedText(tramp))
        THEN tramp.out.invoked = 1 /\ tramp.out.view = SuppliedText(tramp)
        ELSE tramp.out.invoked = 0 /\ tramp.out.view = <<>> /\ tramp.out.ret = 0

C11_Witness ==
    /\ tramp.kind = "dtmf_rx_callback" /\ CarriesText(tramp)
    /\ tramp.buf = <<65, 255>> /\ tramp.len = 2
    /\ tramp.out.invoked = 0

\* C12: no native state is touched from two threads at once through the
\* wrappers: two live handles that refer to the same native state, parent or
\* child, are always on the same thread, and so are never inside the native
\* engine on two threads at the same time.
C12_SingleThreaded ==
    \A a \in THandles, b \in THandles :
        (a # b /\ hs[a].st = "alive" /\ hs[b].st = "alive" /\ hs[a].root = hs[b].root) =>
            /\ hs[a].thread = hs[b].thread
            /\ ~(hs[a].busy /\ hs[b].busy)

\* C13: for every u-law code c in 0..255, decoding c and re-encoding the
\* result gives c again, except for c = 0x7F, the second representation of
\* zero, which re-encodes to the canonical zero code 0xFF.
C13_UlawRoundTrip ==
    (g.from = "code" /\ g.law = "ulaw" /\ g.steps = 2) =>
        g.out = IF g.start = 127 THEN 255 ELSE g.start

C13_Witness ==
    /\ g.from = "code" /\ g.law = "ulaw" /\ g.steps = 2
    /\ g.start = 127 /\ g.mid = 0 /\ g.out = 255

\* C14: for every A-law code c in 0..255, decoding c and re-encoding the
\* result gives c again, with no exception.
C14_AlawRoundTrip ==
    (g.from = "code" /\ g.law = "alaw" /\ g.steps = 2) => g.out = g.start

C14_Witness ==
    /\ g.from = "code" /\ g.law = "alaw" /\ g.steps = 2
    /\ g.start = 213 /\ g.mid = 8 /\ g.out = 213

\* The codes of a law that decode to the linear value 0.
ZeroCodes(law) == {c \in Codes : Decode(law, c) = 0}

\* C15 as stated: for each law exactly two of the 256 codes decode to the
\* linear value 0, and encoding 0 yields one of those two codes.
C15_TwoZeroCodes ==
    (g.from = "linear" /\ g.start = 0 /\ g.steps >= 1) =>
        /\ Cardinality(ZeroCodes(g.law)) = 2
        /\ g.mid \in ZeroCodes(g.law)

\* C15 amended: exactly the two u-law codes 0x7F and 0xFF decode to 0 and
\* encoding 0 yields 0xFF; no A-law code decodes to 0, encoding 0 yields 0xD5,
\* which decodes to 8.
C15_ZeroCodes ==
    /\ (g.from = "linear" /\ g.start = 0 /\ g.steps >= 1) =>
          IF g.law = "ulaw"
          THEN ZeroCodes("ulaw") = {127, 255} /\ g.mid = 255
          ELSE ZeroCodes("alaw") = {} /\ g.mid = 213 /\ (g.steps = 2 => g.out = 8)
    /\ (g.from = "code" /\ g.mid = 0) => (g.law = "ulaw" /\ g.start \in {127, 255})

C15_Witness ==
    /\ g.from = "linear" /\ g.law = "alaw" /\ g.start = 0 /\ g.steps = 2
    /\ g.mid = 213 /\ g.out = 8

\* C16: for both laws and every 16-bit sample x, the value decoded from the
\* encoding of x differs from x by at most 1024, and the decoder's value fits
\* in 16 bits, so its narrowing cast does not wrap.
C16_RoundTripError ==
    (g.from = "linear" /\ g.steps = 2) =>
        /\ g.start - g.out <= 1024 /\ g.out - g.start <= 1024
        /\ g.wide \in I16 /\ g.out = g.wide

C16_Witness ==
    /\ g.from = "linear" /\ g.law = "ulaw" /\ g.steps = 2
    /\ g.start = 0 - 32768 /\ g.mid = 0 /\ g.out = 0 - 32124

\* The enumerators bound to native value v.
StatusesOf(v) == {st \in T4Statuses : en.disc[st] = v}

\* C17: T4DecodeStatus::try_from maps each of the six native status values
\* to its own enumerator, so that try_from(i32::from(s)) = s for every s, and
\* rejects every other integer with InvalidInput; put and put_bit of T4Rx and
\* T4T6Decoder return the enumerator of a recognised native value, distinct
\* for distinct values, and InvalidData (never MoreData or Ok) for any other.
C17_StatusClosed ==
    /\ en.bound => \A st \in T4Statuses : Cardinality(StatusesOf(en.disc[st])) = 1
    /\ en.op = "try_from" =>
          IF StatusesOf(en.arg) # {}
          THEN en.ok /\ StatusesOf(en.arg) = {en.val}
          ELSE ~en.ok /\ en.val = "InvalidInput"
    /\ en.op = "into" =>
          T4DecodeStatus_try_from(en.disc, en.raw) = ROk(en.val)
    /\ en.op = "put" =>
          IF StatusesOf(en.arg) # {}
          THEN StatusesOf(en.arg) = {en.val}
          ELSE en.val = "InvalidData"

C17_Witness ==
    /\ en.op = "put" /\ en.who = "T4T6Decoder::put_bit"
    /\ StatusesOf(en.arg) = {} /\ en.arg = 2 /\ en.val = "InvalidData"
    /\ en.disc["Aborted"] = 0 - 2

\* C18: G722Rate::try_from succeeds exactly for 64000, 56000 and 48000 and
\* G726Rate::try_from exactly for 16000, 24000, 32000 and 40000, the rate it
\* returns has bps() equal to the argument, every other value gives
\* InvalidInput, no try_from issues a native call, and a codec constructor
\* hands the initializer only a rate of its set.
C18_RateClosed ==
    [][/\ en'.op = "rate_try_from" =>
            /\ en'.ok = (en'.arg \in (IF en'.who = "G722" THEN {64000, 56000, 48000}
                                      ELSE {16000, 24000, 32000, 40000}))
            /\ en'.ok => (en'.val \in RatesOf(en'.who) /\ en'.raw = en'.arg)
            /\ ~en'.ok => en'.val = "InvalidInput"
            /\ en'.inits = en.inits
       /\ en'.op = "new" =>
            en'.raw \in (IF en'.who = "G726State::new" THEN {16000, 24000, 32000, 40000}
                         ELSE {64000, 56000, 48000})]_vars

C18_Witness ==
    /\ en.op = "rate_try_from" /\ en.who = "G722" /\ en.arg = 56000
    /\ en.ok /\ en.val = "Rate56000" /\ en.raw = 56000 /\ en.inits = 1

\* C19: in a bulk codec call, whatever the lengths of the input and output
\* buffers, the native engine writes no more elements than the output buffer
\* holds, and the count returned does not exceed the output buffer's length.
C19_OutputBounded ==
    bk.op # "none" => (bk.written <= bk.outLen /\ bk.ret <= bk.outLen)

\* The handler invocations that carry data, as the tests' data_frames.
DataFrames(log) == SelectSeq(log, LAMBDA e : e.data # <<>>)
IsPrefix(a, b) == Len(a) <= Len(b) /\ SubSeq(b, 1, Len(a)) = a

\* C20: when every frame is queued after framing is established, the data
\* frames the receive handler has seen are, in queue order, the frames
\* queued, each byte-identical and with crc_ok = true, none repeated, and
\* again and again every frame queued so far has been delivered, so that no
\* queued frame stays undelivered; for CRC-16 and CRC-32.
C20_RoundTrip ==
    /\ [](hd.pre =>
            /\ IsPrefix([i \in 1..Len(DataFrames(hd.log)) |-> DataFrames(hd.log)[i].data],
                        hd.sent)
            /\ \A i \in 1..Len(hd.log) : hd.log[i].crc_ok)
    /\ []<>(hd.pre => Len(DataFrames(hd.log)) = Len(hd.sent))

C20_Witness ==
    /\ hd.crc32 /\ hd.pre /\ Len(hd.sent) = 2
    /\ hd.sent[1] = <<126, 126>> /\ hd.sent[2] = <<49>>
    /\ Len(DataFrames(hd.log)) = 2
    /\ DataFrames(hd.log)[2] = [data |-> <<49>>, crc_ok |-> TRUE]

\* C21: the detected digits are at every moment a prefix of the digits
\* queued (none lost before a later one, none duplicated, none reordered),
\* and a get made after generation has ended and every sample has been fed,
\* with room for all digits still due, returns exactly those digits in
\* queue order.
C21_DtmfRoundTrip ==
    /\ IsPrefix(dt.got \o dt.rx.digits, dt.sent)
    /\ (dt.gets > 0 /\ dt.get.done /\ dt.get.max >= Len(dt.get.due))
            => dt.get.out = dt.get.due

C21_Witness ==
    /\ dt.sent = <<49, 65>> /\ dt.gets = 1 /\ dt.get.done
    /\ dt.get.max = 2 /\ dt.get.out = <<49, 65>>

\* The wrappers reachable without unsafe code: those of an engine whose
\* constructor is safe, and the children its accessors hand out.
SafeApi(s) == nat[wr[s].ptr[1]].kind \notin UnsafeCtor

\* C22: every method call on a wrapper obtained through the safe API alone
\* targets a native state that is still allocated.
C22_NoUseAfterRelease ==
    [][\A s \in Slots : (Method(s) /\ SafeApi(s)) => Live(wr[s].ptr)]_vars

\* C23: the value T4Tx::get and T4T6Encoder::get return is a count between
\* 0 and buf.len() inclusive for every value the native call returns, and
\* is 0 when the native call returns a negative value.
C23_GetCount ==
    pf.op = "get" =>
        /\ pf.out.wrap = 0 /\ pf.out.v >= 0 /\ pf.out.v <= pf.arg
        /\ pf.arg2 < 0 => pf.out.v = 0

C23_Witness ==
    pf.op = "get" /\ pf.who = "T4T6Encoder" /\ pf.arg = 2 /\ pf.arg2 = 0 - 1 /\ pf.out.v = 0

\* C24: completion_code returns Some exactly for the codes 0..61 and None
\* for every other i32, negative values included; two distinct codes never
\* give the same error; the error of code 0 is the only one that is_ok.
C24_CompletionClosed ==
    pf.op = "completion_code" =>
        /\ (pf.out.res # <<>>) <=> (pf.arg \in 0..61)
        /\ \A c \in CodeInputs \ {pf.arg} :
              pf.out.res # <<>> => completion_code(c) # pf.out.res
        /\ pf.out.ok <=> (pf.arg = 0)

C24_Witness ==
    /\ pf.op = "completion_code" /\ pf.arg = 61
    /\ pf.out.res = <<"T30_ERR_CSA_UNACCEPTABLE">> /\ ~pf.out.ok

\* The errors completion_code can return.
Accepted == {completion_code(c)[1] : c \in {k \in CodeInputs : completion_code(k) # <<>>}}

\* C25: every error completion_code can return displays with a description
\* of its own, never with the fallback text.
C25_OwnDescription ==
    (pf.op = "display" /\ pf.who \in Accepted) =>
        /\ pf.out # "unknown T.30 error"
        /\ \A e \in Accepted \ {pf.who} : description(e) # pf.out

\* C26: the u-law encoder selects segment 8 or higher exactly for the
\* samples x >= 32636 and x <= -32636, and encodes them to the
\* maximum-magnitude code of their sign, 0x80 and 0x00; the A-law encoder's
\* segment index is in 0..7 for every 16-bit sample.
C26_SegmentSaturation ==
    (g.from = "linear" /\ g.steps >= 1) =>
        IF g.law = "ulaw"
        THEN /\ (ulaw_seg(g.start) >= 8) <=> (g.start >= 32636 \/ g.start <= 0 - 32636)
             /\ g.start >= 32636 => g.mid = 128
             /\ g.start <= 0 - 32636 => g.mid = 0
        ELSE alaw_seg(g.start) \in 0..7

C26_Witness ==
    /\ g.from = "linear" /\ g.law = "ulaw" /\ g.start = 32636 /\ g.mid = 128
    /\ ulaw_seg(g.start) = 8

\* The sum of the value decoded from the encoding of the sample in hand and
\* the value decoded from the encoding of its negation.
MirrorSum == g.out + Decode(g.law, Encode(g.law, 0 - g.start))
Abs(x) == IF x >= 0 THEN x ELSE 0 - x
Mirrored == g.from = "linear" /\ g.steps = 2 /\ g.start >= 0 - 32767

\* C27 as stated: for both laws and every sample x in -32767..32767 the
\* decoded encodings of x and -x sum to less than 100 in absolute value.
C27_SignSymmetry == Mirrored => Abs(MirrorSum) < 100

\* C27 as the code has it: for u-law the two values are exact negatives of
\* each other; for A-law they are exact negatives unless x is a multiple of
\* 16, where x and -x can fall into cells one apart and the sum is at most
\* 1024 in absolute value.
C27_SignSymmetryByLaw ==
    Mirrored =>
        IF g.law = "ulaw" THEN MirrorSum = 0
        ELSE /\ Abs(MirrorSum) <= 1024
             /\ g.start % 16 # 0 => MirrorSum = 0

C27_Witness ==
    Mirrored /\ g.law = "alaw" /\ g.start = 16384 /\ g.out = 16896 /\ MirrorSum = 768

\* C28: the T.4 row-write trampoline, given a context pointer, runs the
\* closure once on a view of exactly the len bytes behind the row pointer
\* and returns 0 exactly when the closure returns true, -1 exactly when it
\* returns false.
C28_RowWriteDecision ==
    (tramp.kind = "row_write" /\ ~tramp.userNull) =>
        /\ tramp.out.invoked = 1
        /\ tramp.out.view = SubSeq(tramp.buf, 1, tramp.len)
        /\ Len(tramp.out.view) = tramp.len /\ tramp.out.span = tramp.len
        /\ (tramp.out.ret = 0) <=> (tramp.cret = 1)
        /\ (tramp.out.ret = 0 - 1) <=> (tramp.cret = 0)

C28_Witness ==
    /\ tramp.kind = "row_write" /\ ~tramp.userNull /\ tramp.cret = 0
    /\ tramp.buf = <<65, 255>> /\ tramp.len = 2
    /\ tramp.out.ret = 0 - 1 /\ tramp.out.view = <<65, 255>>

\* C29: DtmfRx::status is None exactly when the native status is 0, Some('x')
\* for the uncertain condition and Some(digit) for a detected digit, and the
\* uncertain condition's result differs from None and from every digit's.
C29_StatusOutcomes ==
    pf.op = "status" =>
        /\ (pf.out = <<>>) <=> (pf.arg = 0)
        /\ pf.arg = MAYBE => pf.out = <<MAYBE>>
        /\ pf.arg \in DigitChars => pf.out = <<pf.arg>>
        /\ \A r \in StatusRaws \ {MAYBE} : DtmfRx_status(r) # DtmfRx_status(MAYBE)

C29_Witness == pf.op = "status" /\ pf.arg = MAYBE /\ pf.out = <<120>>

\* C30: the word set_level_with_flags builds has the level in its low 8
\* bits and the flags in the remaining bits, LogLevel::try_from of the low 8
\* bits gives the level back, and try_from succeeds exactly for 0..10 and is
\* InvalidInput otherwise.
C30_LevelWord ==
    /\ pf.op = "set_level" =>
          /\ BitAnd(pf.out, 255) = LogLevel_as_i32(pf.who)
          /\ pf.out - BitAnd(pf.out, 255) = pf.arg
          /\ LogLevel_try_from(BitAnd(pf.out, 255)) = ROk(pf.who)
    /\ pf.op = "level_try_from" =>
          /\ pf.out.ok <=> (pf.arg \in 0..10)
          /\ ~pf.out.ok => pf.out = RErr("InvalidInput")

C30_Witness ==
    pf.op = "set_level" /\ pf.who = "Debug3" /\ pf.arg = 256 + 32768 /\ pf.out = 33034

====
